---- MODULE Spec2Model ----
(***************************************************************************)
(* Model of the result viewer / text editor of the font-analysis client.   *)
(*                                                                         *)
(*   App            (src/unnamed/part_000)  gallery, selection, analysis,  *)
(*                                          persisted zoom state           *)
(*   ResultDisplay  (src/components/FontShowcase.tsx:209-450)  editor,     *)
(*                                          history, highlight, debounce   *)
(*   ZoomableImage  (src/components/FontShowcase.tsx:63-183)   zoom / pan  *)
(*                                                                         *)
(* One action is one event handler run to completion, together with the    *)
(* re-render and the effects React flushes before the next event.          *)
(*                                                                         *)
(* Numbers.  The source computes with IEEE doubles; here the geometry of a  *)
(* bounding box is in hundredths of the image, the zoom scale in tenths    *)
(* (products and quotients rounded down), pointer and pan coordinates in   *)
(* pixels, time in milliseconds.                                           *)
(***************************************************************************)
EXTENDS Integers, Sequences, FiniteSets, TLC

\* ------------------------------------------------------------------ bounds
NumImages == 2
MaxStack == 3
TickMs == 250
MaxPan == 1
MaxPointer == 1
MaxRequests == 2
MaxWords == 3
MaxUploads == 2
MaxBatch == 1
MaxGallery == 2
MaxClock == 1
MaxPending == 1

\* ------------------------------------------------------- program constants
DEBOUNCE_MS == 500
WHEEL_SETTLE_MS == 150
\* scales, in tenths: 5, 0.5 and 1
MAX_SCALE == 50
MIN_SCALE == 5
DEFAULT_SCALE == 10

\* null / undefined of each kind of value (ids and indices start at 1, no
\* timer has a negative delay, no zoom scale is 0)
NoImage == 0
NoResult == 0
NoSpan == 0
NoTimer == 0 - 1
NoError == "null"
NoWord == [img |-> 0, idx |-> 0]
Origin == [x |-> 0, y |-> 0]
UndefinedZoom == [scale |-> 0, position |-> Origin]
\* a word without a boundingBox (no box has a negative side)
NoBox == [x |-> 0 - 1, y |-> 0 - 1, width |-> 0 - 1, height |-> 0 - 1]
\* no text (a text is a sequence of characters)
NoText == <<"undefined">>

Min(a, b) == IF a < b THEN a ELSE b
Max(a, b) == IF a > b THEN a ELSE b
Abs(a) == IF a < 0 THEN 0 - a ELSE a

\* ------------------------------------------------------------------- words
\* types.ts: Word = { text, boundingBox: { x, y, width, height } }
Word(t, bx, by, bw, bh) ==
    [text |-> t, boundingBox |-> [x |-> bx, y |-> by, width |-> bw, height |-> bh]]

\* The analysis results of the session specifications
\* (AnalysisResult.words): 1 is one line of two words, read right to left as
\* "A B"; 2 is two lines, "C" above "A"; 3 holds two entries with the same
\* text and the same box.
Analyses ==
    << << Word("B", 10, 50, 10, 5), Word("A", 30, 50, 10, 5) >>,
       << Word("A", 10, 50, 10, 5), Word("C", 20, 10, 10, 5) >>,
       << Word("A", 10, 50, 10, 5), Word("A", 10, 50, 10, 5) >> >>

\* the results the service answers with while a session runs
ResultIds == 1..2

\* ---------------------------------------------------------- reconstruction
\* The two comparators of the effect, as "a sorts strictly before b":
\*   "y": (a, b) => a.boundingBox.y - b.boundingBox.y
\*   "x": (a, b) => b.boundingBox.x - a.boundingBox.x
\* comparators that both sort ascending: lines would read left to right
BeforeAscending(order, a, b) ==
    IF order = "y" THEN a.boundingBox.y < b.boundingBox.y
    ELSE a.boundingBox.x < b.boundingBox.x

Before(order, a, b) ==
    IF order = "y" THEN a.boundingBox.y < b.boundingBox.y
    ELSE a.boundingBox.x > b.boundingBox.x

\* Array.prototype.sort is stable: insertion keeps equal keys in input order.
RECURSIVE InsertBy(_, _, _)
InsertBy(order, w, s) ==
    IF s = <<>> THEN <<w>>
    ELSE IF Before(order, w, Head(s)) THEN <<w>> \o s
    ELSE <<Head(s)>> \o InsertBy(order, w, Tail(s))

RECURSIVE SortBy(_, _)
SortBy(order, s) ==
    IF s = <<>> THEN <<>>
    ELSE InsertBy(order, s[Len(s)], SortBy(order, SubSeq(s, 1, Len(s) - 1)))

\* a grouping test that lets the boundary in
SameLineInclusive(ref, w) ==
    5 * Abs((2 * w.boundingBox.y + w.boundingBox.height)
            - (2 * ref.boundingBox.y + ref.boundingBox.height))
        <= 7 * ref.boundingBox.height

\* Math.abs(wordCenterY - referenceCenterY) < reference.height * 0.7,
\* with both sides multiplied by 10 (centre = y + height / 2).
SameLine(ref, w) ==
    5 * Abs((2 * w.boundingBox.y + w.boundingBox.height)
            - (2 * ref.boundingBox.y + ref.boundingBox.height))
        < 7 * ref.boundingBox.height

\* a reference that moves along the line: the word pushed last
lineReferenceLast(currentLine) == currentLine[Len(currentLine)]

\* 251: const lineReferenceWord = currentLine[0]
lineReferenceWord(currentLine) == currentLine[1]

\* the for loop over sortedWords: lines grown left to right, the reference
\* of the current line is its first word
RECURSIVE GroupLines(_, _)
GroupLines(sorted, lines) ==
    IF sorted = <<>> THEN lines
    ELSE LET word == Head(sorted)
             currentLine == lines[Len(lines)]
         IN IF SameLine(lineReferenceWord(currentLine), word)
            THEN GroupLines(Tail(sorted),
                            [lines EXCEPT ![Len(lines)] = Append(currentLine, word)])
            ELSE GroupLines(Tail(sorted), Append(lines, <<word>>))

LinesOf(words) ==
    IF words = <<>> THEN <<>>
    ELSE LET sortedWords == SortBy("y", words)
             grouped == GroupLines(Tail(sortedWords), << <<sortedWords[1]>> >>)
         IN [i \in 1..Len(grouped) |-> SortBy("x", grouped[i])]

\* A text is a sequence of characters; a word's text is one character here.
RECURSIVE JoinLine(_)
JoinLine(line) ==
    IF line = <<>> THEN <<>>
    ELSE IF Len(line) = 1 THEN <<line[1].text>>
    ELSE <<line[1].text, " ">> \o JoinLine(Tail(line))

RECURSIVE JoinLines(_)
JoinLines(lines) ==
    IF lines = <<>> THEN <<>>
    ELSE IF Len(lines) = 1 THEN JoinLine(lines[1])
    ELSE JoinLine(lines[1]) \o <<"\n">> \o JoinLines(Tail(lines))

\* editorRef.current.innerText after the spans and text nodes are appended
InitialText(words) == JoinLines(LinesOf(words))

\* 246: both comparators read a.boundingBox.y / b.boundingBox.x of every
\* element they are called with, and sort calls its comparator with every
\* element of an array of two or more: a word without boundingBox makes the
\* property access throw a TypeError
Throws(words) ==
    /\ Len(words) >= 2
    /\ \E i \in DOMAIN words : words[i].boundingBox = NoBox

\* The Word objects of result.words told apart: src is the place of the
\* object in the array (two entries may hold the same text and box).
Tagged(words) ==
    [i \in DOMAIN words |->
        [text |-> words[i].text, boundingBox |-> words[i].boundingBox, src |-> i]]

\* the first place of the array that holds a word of the same text and box
FirstEqual(words, i) ==
    CHOOSE j \in DOMAIN words :
        /\ words[j] = words[i]
        /\ \A k \in DOMAIN words : words[k] = words[i] => j <= k

\* spans whose handler looks its word up by text and box
TokensByValue(words) ==
    LET lines == LinesOf(Tagged(words))
    IN [l \in DOMAIN lines |->
          [k \in DOMAIN lines[l] |->
              [textContent |-> lines[l][k].text,
               word |-> FirstEqual(words, lines[l][k].src)]]]

\* 264-276: one span per element of each line, in line order; textContent
\* is word.text and the onmouseenter closure holds the Word object itself
Tokens(words) ==
    LET lines == LinesOf(Tagged(words))
    IN [l \in DOMAIN lines |->
          [k \in DOMAIN lines[l] |->
              [textContent |-> lines[l][k].text, word |-> lines[l][k].src]]]

NotRun == [status |-> "not run", lines |-> <<>>, tokens |-> <<>>, words |-> <<>>,
           text |-> <<>>, stack |-> <<>>, index |-> 0]

\* an effect that builds the editor but hands no snapshot to setHistory
\* when there is no line
ReconstructionWithoutSnapshot(words) ==
    IF Throws(words)
    THEN [status |-> "threw", lines |-> <<>>, tokens |-> <<>>, words |-> words,
          text |-> <<>>, stack |-> <<>>, index |-> 0]
    ELSE [status |-> "done", lines |-> LinesOf(words), tokens |-> Tokens(words),
          words |-> words, text |-> InitialText(words),
          stack |-> IF words = <<>> THEN <<>> ELSE <<InitialText(words)>>,
          index |-> 0]

\* the effect 242-286 as a function of result.words: the lines it builds,
\* the spans it appends, the text it leaves in the editor, the stack and
\* index it hands to setHistory, and result.words as the effect leaves it
\* (246 sorts the copy [...result.words], 265 sorts the line arrays built
\* at 247 and 257; no Word is written to); an exception leaves the effect
\* before 263
Reconstruction(words) ==
    IF Throws(words)
    THEN [status |-> "threw", lines |-> <<>>, tokens |-> <<>>, words |-> words,
          text |-> <<>>, stack |-> <<>>, index |-> 0]
    ELSE [status |-> "done", lines |-> LinesOf(words), tokens |-> Tokens(words),
          words |-> words, text |-> InitialText(words),
          stack |-> <<InitialText(words)>>, index |-> 0]

\* Words the analysis service can return (AnalysisResult.words is whatever
\* the model answered: no field is validated, geminiService.ts).  B, A, C are
\* two lines of a page; T, U, V are as tall as the image, U and V 0.69 and
\* 0.70 below T; Z and Y are flat boxes on one height, H a box below them;
\* S is a low box whose top is level with B and A; N has no boundingBox.
WordPool ==
    { Word("B", 10, 50, 10, 5), Word("A", 30, 50, 10, 5), Word("C", 20, 10, 10, 5),
      Word("T", 10, 0, 10, 100), Word("U", 20, 69, 10, 100), Word("V", 30, 70, 10, 100),
      Word("Z", 10, 30, 10, 0), Word("Y", 20, 30, 10, 0), Word("H", 30, 30, 10, 10),
      Word("S", 20, 50, 10, 1), [text |-> "N", boundingBox |-> NoBox] }

RECURSIVE WordListsOfLen(_)
WordListsOfLen(n) ==
    IF n = 0 THEN { <<>> }
    ELSE { Append(l, w) : l \in WordListsOfLen(n - 1), w \in WordPool }

WordLists == UNION { WordListsOfLen(n) : n \in 0..MaxWords }

Range(f) == { f[i] : i \in DOMAIN f }

\* ------------------------------------------------------------------ overlay
\* Box components are held in hundredths, so the percentages of the region
\* style are held in hundredths of a percent: 10000 is 100%.
FULL == 100 * 100

\* a style that keeps every edge of the region inside the image
RegionStyleClamped(boundingBox) ==
    LET left == Max(0, Min(FULL, boundingBox.x * 100))
        top == Max(0, Min(FULL, boundingBox.y * 100))
    IN [left |-> left,
        top |-> top,
        width |-> Max(0, Min(FULL - left, boundingBox.width * 100)),
        height |-> Max(0, Min(FULL - top, boundingBox.height * 100))]

\* 161-164: left, top, width, height of the region's style
RegionStyle(boundingBox) ==
    [left |-> boundingBox.x * 100,
     top |-> boundingBox.y * 100,
     width |-> boundingBox.width * 100,
     height |-> boundingBox.height * 100]

NotRendered == [status |-> "not rendered", regions |-> <<>>]

\* 151-173: words.map builds one region per word, in list order; reading
\* word.boundingBox.x of a word without boundingBox throws
Overlay(words) ==
    IF \E i \in DOMAIN words : words[i].boundingBox = NoBox
    THEN [status |-> "threw", regions |-> <<>>]
    ELSE [status |-> "rendered",
          regions |-> [i \in DOMAIN words |-> RegionStyle(words[i].boundingBox)]]

\* --------------------------------------------------------------------- state
ImageIds == 1..NumImages

VARIABLES
    \* App (part_000:224-229)
    images,             \* ImageState per gallery entry: result, isLoading, error, zoomState
    selectedId,         \* id of selectedImage, or NoImage
    inflight,           \* per image: the handleAnalyze calls awaiting analyzeArabicFont, each
                        \* with the zoomState of the imageToAnalyze it captured (the other
                        \* fields are overwritten at 358) and whether handleAnalyzeAll awaits it
    isAnalyzingAll,
    imagesToAnalyze,    \* what is left of the for loop of a running handleAnalyzeAll: the
                        \* id and zoomState of the images of the render it was started from
    \* ResultDisplay instance (FontShowcase.tsx:210-217); default values while not mounted
    history,            \* { stack, index }, index 0-based as in the source
    editor,             \* editorRef.current.innerText
    spans,              \* indices of the words whose <span> is still in the editor
    hoverSpan,          \* the span under the mouse pointer, or NoSpan
    hasEditedSinceLoad,
    highlightedWord,    \* NoWord or a reference [img, idx] to a Word object
    debounceTimeout,    \* NoTimer, or ms left until the pending commit callback is due
    diacriticsVisible,
    orphanTimers,       \* ms left of commit timers whose ResultDisplay was unmounted
    \* ZoomableImage instance of the result view (FontShowcase.tsx:64-68)
    isDragging, startPos, isWheeling, wheelTimeout,
    \* what the result view has handed out
    clipboard,          \* the text of the last navigator.clipboard.writeText, or NoText
    downloaded,         \* the editedText of the last onDownload, or NoText
    \* the reconstruction effect taken alone
    input,              \* the result.words it is given
    output,             \* what it has left behind, NotRun before it has run
    \* the overlay of ZoomableImage taken alone
    overlay,            \* the regions rendered for words = input
    \* the gallery of App taken alone, ids and uploads included (part_000:224-225)
    gallery,            \* the images array: ImageState records in upload order
    selectedImage,      \* the selected ImageState object, or NoSelection
    now,                \* Date.now(), in ms since the page was opened
    batches,            \* processFiles calls so far
    uploads,            \* processFiles calls whose images are still loading
    awaited,           \* handleAnalyze calls awaiting analyzeArabicFont
    extractionModes,    \* the selected extraction modes, in the order of the array (229)
    \* observers (no effect on the program)
    sinceEdit,          \* ms since the last edit event, saturating at DEBOUNCE_MS
    burstEdits,         \* edit events of the current burst (2 = two or more); a burst is
                        \* over when 500 ms passed without an edit and no commit is pending
    burstCommits,       \* snapshots appended since the current burst of edits began
    trip,               \* progress of an undo... redo... run that started at the tail
    lastEvent           \* the handler that ran last, for those whose run leaves no
                        \* other trace in the state ("other" for the rest)

appVars == <<images, selectedId, inflight, isAnalyzingAll, imagesToAnalyze>>
rdVars == <<history, editor, spans, hoverSpan, hasEditedSinceLoad, highlightedWord,
            debounceTimeout, orphanTimers, diacriticsVisible>>
outVars == <<clipboard, downloaded>>
reconVars == <<input, output, overlay>>
ziVars == <<isDragging, startPos, isWheeling, wheelTimeout>>
obsVars == <<sinceEdit, burstEdits, burstCommits, trip, lastEvent>>
galleryVars == <<gallery, selectedImage, now, batches, uploads, awaited, extractionModes>>
vars == <<appVars, rdVars, ziVars, outVars, reconVars, galleryVars, obsVars>>

\* handleImageUpload (part_000:258-265): a fresh ImageState
NewImage == [result |-> NoResult, isLoading |-> FALSE, error |-> NoError, zoomState |-> UndefinedZoom]

\* ResultDisplay is rendered iff selectedImage && selectedImage.result (part_000:470-477)
MountedIn(imgs, sel) == sel # NoImage /\ imgs[sel].result # NoResult
Mounted == MountedIn(images, selectedId)

\* result.words of the displayed image
WordsIn(imgs, sel) == Analyses[imgs[sel].result]
Words == WordsIn(images, selectedId)

\* useState initial value (FontShowcase.tsx:212)
EmptyHistory == [stack |-> << <<>> >>, index |-> 0]

Current(h) == h.stack[h.index + 1]

\* FontShowcase.tsx:311-313
isEdited == history.index > 0
canUndo == history.index > 0
canRedo == history.index < Len(history.stack) - 1

NoTrip == [phase |-> "idle", undos |-> 0, redos |-> 0, stack |-> <<>>]

\* ------------------------------------------------- ResultDisplay life cycle
\* an effect that leaves the edited-since-load latch as it is
ReconstructKeepsLatch(words) ==
    /\ editor' = InitialText(words)
    /\ spans' = 1..Len(words)
    /\ history' = [stack |-> <<InitialText(words)>>, index |-> 0]
    /\ UNCHANGED hasEditedSinceLoad

\* an effect that rebuilds the editor, clears the latch and leaves the history
ReconstructKeepsHistory(words) ==
    /\ editor' = InitialText(words)
    /\ spans' = 1..Len(words)
    /\ UNCHANGED history
    /\ hasEditedSinceLoad' = FALSE

\* an effect that resets the history and leaves the nodes of the editor
ReconstructKeepsEditor(words) ==
    /\ UNCHANGED <<editor, spans>>
    /\ history' = [stack |-> <<InitialText(words)>>, index |-> 0]
    /\ hasEditedSinceLoad' = FALSE

\* FontShowcase.tsx:242-286: the effect run after mount and whenever
\* result.words is another array
Reconstruct(words) ==
    /\ editor' = InitialText(words)
    /\ spans' = 1..Len(words)
    /\ history' = [stack |-> <<InitialText(words)>>, index |-> 0]
    /\ hasEditedSinceLoad' = FALSE

\* a new ZoomableImage instance (FontShowcase.tsx:64-68); its unmount
\* cleanup clears the wheel timer (70-76)
FreshZoomable ==
    /\ isDragging' = FALSE
    /\ startPos' = Origin
    /\ isWheeling' = FALSE
    /\ wheelTimeout' = NoTimer

FreshObservers ==
    /\ sinceEdit' = DEBOUNCE_MS
    /\ burstEdits' = 0
    /\ burstCommits' = 0
    /\ trip' = NoTrip

\* first render of a ResultDisplay (210-217) followed by its effect
MountResultDisplay(words) ==
    /\ Reconstruct(words)
    /\ hoverSpan' = NoSpan
    /\ highlightedWord' = NoWord
    /\ debounceTimeout' = NoTimer
    /\ diacriticsVisible' = TRUE
    /\ UNCHANGED orphanTimers
    /\ FreshZoomable
    /\ FreshObservers

\* an effect that does not run again for another result: the editor keeps
\* the history of the previous word set
WordsChangedKeepsHistory(words) ==
    /\ editor' = InitialText(words)
    /\ spans' = 1..Len(words)
    /\ hoverSpan' = NoSpan
    /\ UNCHANGED <<history, hasEditedSinceLoad>>
    /\ UNCHANGED <<highlightedWord, debounceTimeout, orphanTimers, diacriticsVisible>>
    /\ UNCHANGED ziVars
    /\ trip' = NoTrip
    /\ UNCHANGED <<sinceEdit, burstEdits, burstCommits>>

\* the mounted ResultDisplay receives another result: only the effect runs;
\* highlightedWord, the debounce timer and the ZoomableImage state are kept
WordsChanged(words) ==
    /\ Reconstruct(words)
    /\ hoverSpan' = NoSpan
    /\ UNCHANGED <<highlightedWord, debounceTimeout, orphanTimers, diacriticsVisible>>
    /\ UNCHANGED ziVars
    /\ trip' = NoTrip
    /\ UNCHANGED <<sinceEdit, burstEdits, burstCommits>>

\* ResultDisplay has no unmount cleanup: a pending commit timer stays armed
UnmountResultDisplay ==
    /\ history' = EmptyHistory
    /\ editor' = <<>>
    /\ spans' = {}
    /\ hoverSpan' = NoSpan
    /\ hasEditedSinceLoad' = FALSE
    /\ highlightedWord' = NoWord
    /\ debounceTimeout' = NoTimer
    /\ diacriticsVisible' = TRUE
    /\ orphanTimers' = orphanTimers \cup
                        (IF debounceTimeout = NoTimer THEN {} ELSE {debounceTimeout})
    /\ FreshZoomable
    /\ FreshObservers

\* what the re-render after an App state change does to the result view
\* (part_000:470-477); images' and selectedId' are fixed by the caller,
\* resolved is the image that has just received a new result object, if any
RerenderAfter(resolved) ==
    IF MountedIn(images', selectedId')
    THEN IF ~Mounted THEN MountResultDisplay(WordsIn(images', selectedId'))
         ELSE IF selectedId' # selectedId \/ selectedId' = resolved
              THEN WordsChanged(WordsIn(images', selectedId'))
              ELSE UNCHANGED <<rdVars, ziVars, sinceEdit, burstEdits, burstCommits, trip>>
    ELSE IF Mounted THEN UnmountResultDisplay
         ELSE UNCHANGED <<rdVars, ziVars, sinceEdit, burstEdits, burstCommits, trip>>

Rerender == RerenderAfter(NoImage)

\* ------------------------------------------------------------------- App
\* ImageCard onClick -> onSelect(imageState) -> setSelectedImage (part_000:107, 449)
SelectImage(id) ==
    /\ hoverSpan = NoSpan
    /\ selectedId' = id
    /\ UNCHANGED <<images, inflight, isAnalyzingAll, imagesToAnalyze>>
    /\ Rerender
    /\ UNCHANGED <<outVars, reconVars, galleryVars>>
    /\ lastEvent' = "other"

\* part_000:338: the imageToAnalyze a call of handleAnalyze keeps until 358
Request(capturedZoomState, awaitedByLoop) ==
    [zoomState |-> capturedZoomState, loop |-> awaitedByLoop]

\* part_000:341, the setImages updater before the await
StartAnalysis(imgs, id) ==
    [imgs EXCEPT ![id] = [@ EXCEPT !.isLoading = TRUE, !.error = NoError,
                                   !.result = NoResult]]

RemoveAt(s, k) == SubSeq(s, 1, k - 1) \o SubSeq(s, k + 1, Len(s))

\* handleAnalyze up to the await, called from a button of the current render
\* (part_000:337-353)
handleAnalyze(id) ==
    /\ hoverSpan = NoSpan
    /\ ~images[id].isLoading
    /\ Len(inflight[id]) < MaxRequests
    /\ images' = StartAnalysis(images, id)
    /\ inflight' = [inflight EXCEPT ![id] = Append(@, Request(images[id].zoomState, FALSE))]
    /\ UNCHANGED <<selectedId, isAnalyzingAll, imagesToAnalyze>>
    /\ Rerender
    /\ UNCHANGED <<outVars, reconVars, galleryVars>>
    /\ lastEvent' = "other"

\* part_000:370: images.filter(img => !img.result && !img.isLoading)
Unprocessed(imgs) ==
    SelectSeq([i \in 1..NumImages |-> i],
              LAMBDA i : imgs[i].result = NoResult /\ ~imgs[i].isLoading)

\* the "Analyze Unprocessed" button (part_000:368-375, 455) up to the first
\* await: the loop and the handleAnalyze it calls keep the images of this render
handleAnalyzeAll ==
    /\ hoverSpan = NoSpan
    /\ ~isAnalyzingAll
    /\ Unprocessed(images) # <<>>
    /\ LET list == Unprocessed(images)
           first == list[1]
       IN /\ Len(inflight[first]) < MaxRequests
          /\ images' = StartAnalysis(images, first)
          /\ inflight' = [inflight EXCEPT
                             ![first] = Append(@, Request(images[first].zoomState, TRUE))]
          /\ imagesToAnalyze' = [k \in 1..(Len(list) - 1) |->
                                    [id |-> list[k + 1],
                                     zoomState |-> images[list[k + 1]].zoomState]]
    /\ isAnalyzingAll' = TRUE
    /\ UNCHANGED selectedId
    /\ Rerender
    /\ UNCHANGED <<outVars, reconVars, galleryVars>>
    /\ lastEvent' = "other"

\* what follows the return of a handleAnalyze call (part_000:371-374): when
\* the loop of handleAnalyzeAll awaited it, the loop calls handleAnalyze for
\* its next image, or ends
AfterAnalysis(request, imgs, requests) ==
    IF ~request.loop
    THEN /\ images' = imgs
         /\ inflight' = requests
         /\ UNCHANGED <<isAnalyzingAll, imagesToAnalyze>>
    ELSE IF imagesToAnalyze = <<>>
    THEN /\ images' = imgs
         /\ inflight' = requests
         /\ isAnalyzingAll' = FALSE
         /\ UNCHANGED imagesToAnalyze
    ELSE LET image == Head(imagesToAnalyze)
         IN /\ Len(requests[image.id]) < MaxRequests
            /\ images' = StartAnalysis(imgs, image.id)
            /\ inflight' = [requests EXCEPT
                               ![image.id] = Append(@, Request(image.zoomState, TRUE))]
            /\ imagesToAnalyze' = Tail(imagesToAnalyze)
            /\ UNCHANGED isAnalyzingAll

\* the analyzeArabicFont awaited by request k of image id resolves with a
\* non-empty word list (part_000:353-361)
AnalyzeResolved(id, k, r) ==
    /\ k \in DOMAIN inflight[id]
    /\ LET request == inflight[id][k]
           updatedImage == [result |-> r, isLoading |-> FALSE, error |-> NoError,
                            zoomState |-> request.zoomState]
       IN /\ AfterAnalysis(request, [images EXCEPT ![id] = updatedImage],
                           [inflight EXCEPT ![id] = RemoveAt(@, k)])
          /\ selectedId' = IF selectedId = NoImage \/ selectedId = id THEN id ELSE selectedId
    /\ RerenderAfter(id)
    /\ UNCHANGED <<outVars, reconVars, galleryVars>>
    /\ lastEvent' = "other"

\* part_000:356, the message of the Error thrown for a response without words
NoTextError == "Could not detect text in the image. Please try a different image."

\* the analyzeArabicFont awaited by request k of image id resolves with no
\* words: 355-357 throws and the catch block stores the message (362-365)
AnalyzeEmpty(id, k) ==
    /\ k \in DOMAIN inflight[id]
    /\ AfterAnalysis(inflight[id][k],
                     [images EXCEPT ![id] = [@ EXCEPT !.error = NoTextError,
                                                      !.isLoading = FALSE]],
                     [inflight EXCEPT ![id] = RemoveAt(@, k)])
    /\ UNCHANGED selectedId
    /\ Rerender
    /\ UNCHANGED <<outVars, reconVars, galleryVars>>
    /\ lastEvent' = "other"

\* the request fails (part_000:362-365)
AnalyzeFailed(id, k) ==
    /\ k \in DOMAIN inflight[id]
    /\ AfterAnalysis(inflight[id][k],
                     [images EXCEPT ![id] = [@ EXCEPT !.error = "error", !.isLoading = FALSE]],
                     [inflight EXCEPT ![id] = RemoveAt(@, k)])
    /\ UNCHANGED selectedId
    /\ Rerender
    /\ UNCHANGED <<outVars, reconVars, galleryVars>>
    /\ lastEvent' = "other"

\* ------------------------------------------------------- edit history store
\* texts the user can leave in the editor besides the snapshots themselves
EditTexts == { <<"x">>, <<"x", "U+064E">> }

\* variants of the commit updater with one slip each
CommitIndexPastEnd(prevHistory, currentText) ==
    IF currentText = prevHistory.stack[prevHistory.index + 1]
    THEN prevHistory
    ELSE LET newStack == Append(SubSeq(prevHistory.stack, 1, prevHistory.index + 1),
                                currentText)
         IN [stack |-> newStack, index |-> Len(newStack)]

CommitKeepsRedo(prevHistory, currentText) ==
    IF currentText = prevHistory.stack[prevHistory.index + 1]
    THEN prevHistory
    ELSE LET newStack == Append(prevHistory.stack, currentText)
         IN [stack |-> newStack, index |-> Len(newStack) - 1]

CommitAlways(prevHistory, currentText) ==
    LET newStack == Append(SubSeq(prevHistory.stack, 1, prevHistory.index + 1),
                           currentText)
    IN [stack |-> newStack, index |-> Len(newStack) - 1]

\* an updater that compares with the first snapshot
CommitComparesFirst(prevHistory, currentText) ==
    IF currentText = prevHistory.stack[1]
    THEN prevHistory
    ELSE LET newStack == Append(SubSeq(prevHistory.stack, 1, prevHistory.index + 1),
                                currentText)
         IN [stack |-> newStack, index |-> Len(newStack) - 1]

\* the setHistory updater of the commit callback (FontShowcase.tsx:299-306)
Commit(prevHistory, currentText) ==
    IF currentText = prevHistory.stack[prevHistory.index + 1]
    THEN prevHistory
    ELSE LET newStack == Append(SubSeq(prevHistory.stack, 1, prevHistory.index + 1),
                                currentText)
         IN [stack |-> newStack, index |-> Len(newStack) - 1]

\* an undo that drops the snapshot it leaves
UndoStepDropsTail(prev) ==
    [stack |-> SubSeq(prev.stack, 1, prev.index), index |-> prev.index - 1]

\* the setHistory updaters of handleUndo / handleRedo (317-323, 328-334)
UndoStep(prev) == [prev EXCEPT !.index = prev.index - 1]
RedoStep(prev) == [prev EXCEPT !.index = prev.index + 1]

\* a timer that is armed once and not restarted by later edits
KeepPendingTimer(pending) == IF pending = NoTimer THEN DEBOUNCE_MS ELSE pending

\* 293-296, 308: clearTimeout of the pending timer, then setTimeout(..., 500)
RestartTimer(pending) == DEBOUNCE_MS

\* onInput of the contentEditable editor (288-309); the browser has already
\* changed the DOM: text is the new innerText, kept the spans that survived
handleInput(text, kept) ==
    /\ Mounted
    /\ editor' = text
    /\ spans' = kept
    /\ hoverSpan' = IF hoverSpan \in kept THEN hoverSpan ELSE NoSpan
    /\ IF ~hasEditedSinceLoad
       THEN hasEditedSinceLoad' = TRUE /\ highlightedWord' = NoWord
       ELSE UNCHANGED <<hasEditedSinceLoad, highlightedWord>>
    /\ debounceTimeout' = RestartTimer(debounceTimeout)
    /\ UNCHANGED <<history, orphanTimers>>
    /\ UNCHANGED <<appVars, ziVars>>
    /\ sinceEdit' = 0
    /\ burstEdits' = IF sinceEdit >= DEBOUNCE_MS THEN 1 ELSE Min(burstEdits + 1, 2)
    /\ burstCommits' = IF sinceEdit >= DEBOUNCE_MS THEN 0 ELSE burstCommits
    /\ trip' = NoTrip
    /\ UNCHANGED diacriticsVisible
    /\ UNCHANGED <<outVars, reconVars, galleryVars>>
    /\ lastEvent' = "other"

\* the setTimeout callback of handleInput (296-308), run when it is due
CommitTimerFires ==
    /\ Mounted
    /\ debounceTimeout = 0
    /\ Len(Commit(history, editor).stack) <= MaxStack
    /\ history' = Commit(history, editor)
    /\ debounceTimeout' = NoTimer
    /\ burstCommits' = IF history' # history THEN burstCommits + 1 ELSE burstCommits
    /\ UNCHANGED <<editor, spans, hoverSpan, hasEditedSinceLoad, highlightedWord, orphanTimers>>
    /\ UNCHANGED <<appVars, ziVars, sinceEdit, burstEdits, trip>>
    /\ UNCHANGED diacriticsVisible
    /\ UNCHANGED <<outVars, reconVars, galleryVars>>
    /\ lastEvent' = IF history' = history THEN "commit:same"
                    ELSE IF canRedo THEN "commit:truncate" ELSE "other"

\* the callback of a timer whose ResultDisplay is gone: editorRef.current is
\* null, nothing happens (297)
OrphanTimerFires ==
    /\ 0 \in orphanTimers
    /\ orphanTimers' = orphanTimers \ {0}
    /\ UNCHANGED <<history, editor, spans, hoverSpan, hasEditedSinceLoad, highlightedWord,
                   debounceTimeout>>
    /\ UNCHANGED <<appVars, ziVars, sinceEdit, burstEdits, burstCommits, trip>>
    /\ UNCHANGED diacriticsVisible
    /\ UNCHANGED <<outVars, reconVars, galleryVars>>
    /\ lastEvent' = "other"

\* restoring the text of the snapshot that is being left
RestoredTextOfOldIndex(prev, newIndex) == prev.stack[prev.index + 1]

\* 320, 331: editorRef.current.innerText = prev.stack[newIndex]
RestoredText(prev, newIndex) == prev.stack[newIndex + 1]

\* 315-324
handleUndo ==
    /\ Mounted
    /\ hoverSpan = NoSpan
    /\ IF ~canUndo
       THEN UNCHANGED <<history, editor, spans, trip>>
       ELSE /\ history' = UndoStep(history)
            /\ editor' = RestoredText(history, UndoStep(history).index)
            /\ spans' = {}
            /\ trip' = IF history.index = Len(history.stack) - 1
                       THEN [phase |-> "undo", undos |-> 1, redos |-> 0,
                             stack |-> history.stack]
                       ELSE IF trip.phase = "undo"
                       THEN [trip EXCEPT !.undos = @ + 1]
                       ELSE NoTrip
    /\ UNCHANGED <<hoverSpan, hasEditedSinceLoad, highlightedWord, debounceTimeout,
                   orphanTimers>>
    /\ UNCHANGED <<appVars, ziVars, sinceEdit, burstEdits, burstCommits>>
    /\ UNCHANGED diacriticsVisible
    /\ UNCHANGED <<outVars, reconVars, galleryVars>>
    /\ lastEvent' = IF canUndo THEN "undo" ELSE "other"

\* 326-335
handleRedo ==
    /\ Mounted
    /\ hoverSpan = NoSpan
    /\ IF ~canRedo
       THEN UNCHANGED <<history, editor, spans, trip>>
       ELSE /\ history' = RedoStep(history)
            /\ editor' = RestoredText(history, RedoStep(history).index)
            /\ spans' = {}
            /\ trip' = IF trip.phase \in {"undo", "redo"} /\ trip.redos < trip.undos
                       THEN [trip EXCEPT !.phase = "redo", !.redos = @ + 1]
                       ELSE NoTrip
    /\ UNCHANGED <<hoverSpan, hasEditedSinceLoad, highlightedWord, debounceTimeout,
                   orphanTimers>>
    /\ UNCHANGED <<appVars, ziVars, sinceEdit, burstEdits, burstCommits>>
    /\ UNCHANGED diacriticsVisible
    /\ UNCHANGED <<outVars, reconVars, galleryVars>>
    /\ lastEvent' = "other"

\* ------------------------------------------------------------- highlighting
\* hover handlers without the hasEditedSinceLoad guard
HoverHighlightUnguarded(edited, current, word) == word

\* 233-234 and 238-239: the guarded setHighlightedWord of the two hover handlers
HoverHighlight(edited, current, word) == IF edited THEN current ELSE word

\* the words the overlay maps over (152), as references into result.words
OverlayWords == { [img |-> selectedId, idx |-> i] : i \in DOMAIN Words }

\* a match on what the word says and where it is
isHighlightedByValue(word) ==
    /\ highlightedWord # NoWord
    /\ Analyses[images[highlightedWord.img].result][highlightedWord.idx]
         = Analyses[images[word.img].result][word.idx]

\* 153: const isHighlighted = highlightedWord === word
isHighlighted(word) == highlightedWord = word

\* span.onmouseenter = () => handleWordEnter(word)  (232-235, 269)
handleWordEnter(i) ==
    /\ Mounted
    /\ hoverSpan = NoSpan
    /\ i \in spans
    /\ hoverSpan' = i
    /\ highlightedWord' = HoverHighlight(hasEditedSinceLoad, highlightedWord,
                                         [img |-> selectedId, idx |-> i])
    /\ UNCHANGED <<history, editor, spans, hasEditedSinceLoad, debounceTimeout, orphanTimers>>
    /\ UNCHANGED <<appVars, ziVars, sinceEdit, burstEdits, burstCommits, trip>>
    /\ UNCHANGED diacriticsVisible
    /\ UNCHANGED <<outVars, reconVars, galleryVars>>
    /\ lastEvent' = "wordEnter"

\* span.onmouseleave = handleWordSpanMouseLeave  (237-240, 270)
handleWordSpanMouseLeave ==
    /\ Mounted
    /\ hoverSpan # NoSpan
    /\ hoverSpan' = NoSpan
    /\ highlightedWord' = HoverHighlight(hasEditedSinceLoad, highlightedWord, NoWord)
    /\ UNCHANGED <<history, editor, spans, hasEditedSinceLoad, debounceTimeout, orphanTimers>>
    /\ UNCHANGED <<appVars, ziVars, sinceEdit, burstEdits, burstCommits, trip>>
    /\ UNCHANGED diacriticsVisible
    /\ UNCHANGED <<outVars, reconVars, galleryVars>>
    /\ lastEvent' = "other"

\* ------------------------------------------------------------ copy, export
\* the characters of /[\u064B-\u0652\u0640]/
DiacriticMarks ==
    { "U+064B", "U+064C", "U+064D", "U+064E", "U+064F", "U+0650", "U+0651", "U+0652",
      "U+0640" }

IsNotMark(c) == c \notin DiacriticMarks

\* 196-198: text.replace(/[\u064B-\u0652\u0640]/g, '')
removeDiacritics(text) == SelectSeq(text, IsNotMark)

\* a text to process that ignores the toggle
getRawText(h, visible) == h.stack[h.index + 1]

\* a text to process that is read from the editor
getLiveText(h, visible) ==
    IF visible THEN editor ELSE removeDiacritics(editor)

\* 337-340 (history.stack[history.index] is never undefined)
getTextToProcess(h, visible) ==
    LET rawText == h.stack[h.index + 1]
    IN IF visible THEN rawText ELSE removeDiacritics(rawText)

\* what the three buttons leave alone
ExportFrame ==
    /\ UNCHANGED <<history, editor, spans, hoverSpan, hasEditedSinceLoad, highlightedWord,
                   debounceTimeout, orphanTimers>>
    /\ UNCHANGED <<appVars, ziVars, reconVars, galleryVars>>
    /\ UNCHANGED <<sinceEdit, burstEdits, burstCommits, trip>>

\* 408: onClick={() => setDiacriticsVisible(!diacriticsVisible)}
toggleDiacritics ==
    /\ Mounted
    /\ hoverSpan = NoSpan
    /\ diacriticsVisible' = ~diacriticsVisible
    /\ UNCHANGED outVars
    /\ ExportFrame
    /\ lastEvent' = "other"

\* 342-348: navigator.clipboard.writeText(getTextToProcess())
copyToClipboard ==
    /\ Mounted
    /\ hoverSpan = NoSpan
    /\ clipboard' = getTextToProcess(history, diacriticsVisible)
    /\ UNCHANGED <<downloaded, diacriticsVisible>>
    /\ ExportFrame
    /\ lastEvent' = "copy"

\* 441: onDownload(getTextToProcess()), App.handleDownload (part_000:403-419)
\* puts the text in the file it saves
handleDownload ==
    /\ Mounted
    /\ hoverSpan = NoSpan
    /\ downloaded' = getTextToProcess(history, diacriticsVisible)
    /\ UNCHANGED <<clipboard, diacriticsVisible>>
    /\ ExportFrame
    /\ lastEvent' = "download"

\* --------------------------------------------------------------------- time
Elapse(timer) == IF timer = NoTimer THEN NoTimer ELSE Max(0, timer - TickMs)

\* TickMs milliseconds pass without any event being handled
Tick ==
    /\ debounceTimeout' = Elapse(debounceTimeout)
    /\ wheelTimeout' = Elapse(wheelTimeout)
    /\ orphanTimers' = { Elapse(t) : t \in orphanTimers }
    /\ sinceEdit' = Min(sinceEdit + TickMs, DEBOUNCE_MS)
    /\ IF debounceTimeout = NoTimer /\ sinceEdit' >= DEBOUNCE_MS
       THEN burstEdits' = 0 /\ burstCommits' = 0
       ELSE UNCHANGED <<burstEdits, burstCommits>>
    /\ UNCHANGED <<history, editor, spans, hoverSpan, hasEditedSinceLoad, highlightedWord>>
    /\ UNCHANGED <<isDragging, startPos, isWheeling>>
    /\ UNCHANGED <<appVars, trip>>
    /\ UNCHANGED diacriticsVisible
    /\ UNCHANGED <<outVars, reconVars, galleryVars>>
    /\ lastEvent' = "other"


\* ----------------------------------------------------------------- viewport
\* FontShowcase.tsx:222: initialZoomState ?? { scale: 1, position: { x: 0, y: 0 } }
ZoomStateOf(img) ==
    IF img.zoomState = UndefinedZoom
    THEN [scale |-> DEFAULT_SCALE, position |-> Origin]
    ELSE img.zoomState

\* the zoomState of the render whose handlers receive the next event
zoomState == ZoomStateOf(images[selectedId])

\* part_000:399-401, the setImages updater of handleZoomChange
handleZoomChange(imgs, id, newZoomState) ==
    [imgs EXCEPT ![id] = [@ EXCEPT !.zoomState = newZoomState]]

\* FontShowcase.tsx:224-230: both spread the zoomState of the current render
handleScaleChange(imgs, newScale) ==
    handleZoomChange(imgs, selectedId, [zoomState EXCEPT !.scale = newScale])

\* a position change that starts from the default state
handlePositionChangeFromDefault(imgs, newPosition) ==
    handleZoomChange(imgs, selectedId, [scale |-> DEFAULT_SCALE, position |-> newPosition])

handlePositionChange(imgs, newPosition) ==
    handleZoomChange(imgs, selectedId, [zoomState EXCEPT !.position = newPosition])

\* a zoom-in step without the upper clamp
ZoomInUnclamped(scale) == (scale * 12) \div 10

\* 78: Math.min(scale * 1.2, 5)
ZoomInScale(scale) == Min((scale * 12) \div 10, MAX_SCALE)
\* 79: Math.max(scale / 1.2, 0.5)
ZoomOutScale(scale) == Max((scale * 10) \div 12, MIN_SCALE)

\* what a viewport handler leaves alone: App selection and requests, the
\* editor, and (result.words being the same array) the history
ViewFrame ==
    /\ UNCHANGED <<selectedId, inflight, isAnalyzingAll, imagesToAnalyze>>
    /\ UNCHANGED rdVars
    /\ UNCHANGED <<sinceEdit, burstEdits, burstCommits, trip>>

\* 78, the "Zoom in" button
handleZoomIn ==
    /\ Mounted
    /\ hoverSpan = NoSpan
    /\ images' = handleScaleChange(images, ZoomInScale(zoomState.scale))
    /\ UNCHANGED ziVars
    /\ ViewFrame
    /\ UNCHANGED <<outVars, reconVars, galleryVars>>
    /\ lastEvent' = "zoomIn"

\* 79, the "Zoom out" button
handleZoomOut ==
    /\ Mounted
    /\ hoverSpan = NoSpan
    /\ images' = handleScaleChange(images, ZoomOutScale(zoomState.scale))
    /\ UNCHANGED ziVars
    /\ ViewFrame
    /\ UNCHANGED <<outVars, reconVars, galleryVars>>
    /\ lastEvent' = "other"

\* 80-83, the "Reset zoom" button: two updaters queued in one handler, each
\* built from the zoomState of the same render
handleReset ==
    /\ Mounted
    /\ hoverSpan = NoSpan
    /\ images' = handlePositionChange(handleScaleChange(images, DEFAULT_SCALE), Origin)
    /\ UNCHANGED ziVars
    /\ ViewFrame
    /\ UNCHANGED <<outVars, reconVars, galleryVars>>
    /\ lastEvent' = "reset"

WheelDeltas == {0 - 100, 0 - 1, 0, 1, 100}

\* a wheel handler that scales by the amount scrolled
WheelScaleByAmount(deltaY, scale) == Max(MIN_SCALE, Min(scale - deltaY, MAX_SCALE))

\* 91-95: if (e.deltaY < 0) handleZoomIn(); else handleZoomOut();
WheelScale(deltaY, scale) ==
    IF deltaY < 0 THEN ZoomInScale(scale) ELSE ZoomOutScale(scale)

\* 85-99
handleWheel(deltaY) ==
    /\ Mounted
    /\ hoverSpan = NoSpan
    /\ isWheeling' = TRUE
    /\ images' = handleScaleChange(images, WheelScale(deltaY, zoomState.scale))
    /\ wheelTimeout' = WHEEL_SETTLE_MS
    /\ UNCHANGED <<isDragging, startPos>>
    /\ ViewFrame
    /\ UNCHANGED <<outVars, reconVars, galleryVars>>
    /\ lastEvent' = "wheel"

\* 96-98, the callback of the wheel timer
WheelSettles ==
    /\ Mounted
    /\ wheelTimeout = 0
    /\ isWheeling' = FALSE
    /\ wheelTimeout' = NoTimer
    /\ UNCHANGED <<isDragging, startPos, images>>
    /\ ViewFrame
    /\ UNCHANGED <<outVars, reconVars, galleryVars>>
    /\ lastEvent' = "other"

\* a style that is switched by the drag alone
transitionWhileDragOnly(dragging, wheeling) ==
    IF dragging THEN "none" ELSE "transform 0.3s ease-out"

\* 140: transition: (isDragging || isWheeling) ? 'none' : 'transform 0.3s ease-out'
transition(dragging, wheeling) ==
    IF dragging \/ wheeling THEN "none" ELSE "transform 0.3s ease-out"

Pointers == { [x |-> px, y |-> py] : px \in 0..MaxPointer, py \in 0..MaxPointer }
Buttons == {0, 2}

\* an anchor that forgets where the image already is
DragAnchorAtPointer(client, position) == client

\* 105: { x: e.clientX - position.x, y: e.clientY - position.y }
DragAnchor(client, position) ==
    [x |-> client.x - position.x, y |-> client.y - position.y]

\* 111-113: { x: e.clientX - startPos.x, y: e.clientY - startPos.y }
DragPosition(client, anchor) ==
    [x |-> client.x - anchor.x, y |-> client.y - anchor.y]

\* 101-106
handleMouseDown(button, client) ==
    /\ Mounted
    /\ hoverSpan = NoSpan
    /\ IF button # 0
       THEN UNCHANGED <<isDragging, startPos>>
       ELSE /\ isDragging' = TRUE
            /\ startPos' = DragAnchor(client, zoomState.position)
    /\ UNCHANGED <<isWheeling, wheelTimeout, images>>
    /\ ViewFrame
    /\ UNCHANGED <<outVars, reconVars, galleryVars>>
    /\ lastEvent' = "other"

\* 108-114
handleMouseMove(client) ==
    /\ Mounted
    /\ hoverSpan = NoSpan
    /\ IF ~isDragging
       THEN UNCHANGED images
       ELSE LET newPosition == DragPosition(client, startPos)
            IN /\ Abs(newPosition.x) <= MaxPan
               /\ Abs(newPosition.y) <= MaxPan
               /\ images' = handlePositionChange(images, newPosition)
    /\ UNCHANGED ziVars
    /\ ViewFrame
    /\ UNCHANGED <<outVars, reconVars, galleryVars>>
    /\ lastEvent' = IF isDragging THEN "drag" ELSE "other"

\* a release that is not listened to: the drag stays active
MouseUpIgnored ==
    /\ Mounted
    /\ UNCHANGED <<isDragging, startPos, isWheeling, wheelTimeout, images>>
    /\ ViewFrame
    /\ UNCHANGED <<outVars, reconVars, galleryVars>>
    /\ lastEvent' = "mouseUp"

\* 116-118, bound to onMouseUp and onMouseLeave (132-133)
handleMouseUpOrLeave ==
    /\ Mounted
    /\ isDragging' = FALSE
    /\ UNCHANGED <<startPos, isWheeling, wheelTimeout, images>>
    /\ ViewFrame
    /\ UNCHANGED <<outVars, reconVars, galleryVars>>
    /\ lastEvent' = "mouseUp"

\* ------------------------------------------------------------------ gallery
\* App with the ids of its images: `${Date.now()}-${index}` (part_000:259)
ImageId(ms, index) == [ms |-> ms, index |-> index]

NoId == ImageId(0 - 1, 0 - 1)
NoFile == [batch |-> 0, index |-> 0 - 1]

\* 258-265: the ImageState of an upload; a File is known by the processFiles
\* call it came with and its place in that call
Uploaded(id, file) ==
    [id |-> id, file |-> file, result |-> NoResult, isLoading |-> FALSE,
     error |-> NoError, zoomState |-> UndefinedZoom]

NoSelection == Uploaded(NoId, NoFile)

\* useState initial values (224-229)
EmptyGallery ==
    /\ gallery = <<>>
    /\ selectedImage = NoSelection
    /\ now = 0
    /\ batches = 0
    /\ uploads = <<>>
    /\ awaited = <<>>
    /\ extractionModes = <<"all">>

HasId(gal, id) == \E k \in DOMAIN gal : gal[k].id = id

\* images.find(img => img.id === id)
FindById(gal, id) ==
    gal[CHOOSE k \in DOMAIN gal :
            gal[k].id = id /\ \A j \in DOMAIN gal : gal[j].id = id => k <= j]

\* 232-239: the effect that replaces selectedImage by the entry of images
\* with its id, when there is one
Sync(gal, selected) ==
    IF selected # NoSelection /\ HasId(gal, selected.id)
    THEN FindById(gal, selected.id)
    ELSE selected

\* what the handlers of the gallery leave alone
GalleryFrame ==
    /\ UNCHANGED <<appVars, rdVars, ziVars, outVars, reconVars, obsVars>>
    /\ UNCHANGED extractionModes

\* 273-335: processFiles starts loading n files; its image callbacks keep
\* the handleImageUpload of this render, whose selectedImage is the current one
processFiles(n) ==
    /\ batches < MaxUploads
    /\ batches' = batches + 1
    /\ uploads' = Append(uploads, [batch |-> batches + 1, size |-> n,
                                   hadSelection |-> selectedImage # NoSelection])
    /\ UNCHANGED <<gallery, selectedImage, now, awaited>>
    /\ GalleryFrame

\* 257-271, called when the last image of the processFiles call u has loaded
handleImageUpload(u) ==
    /\ u \in DOMAIN uploads
    /\ Len(gallery) + uploads[u].size <= MaxGallery
    /\ LET upload == uploads[u]
           newImages == [i \in 1..upload.size |->
                            Uploaded(ImageId(now, i - 1),
                                     [batch |-> upload.batch, index |-> i - 1])]
       IN /\ gallery' = gallery \o newImages
          /\ selectedImage' = Sync(gallery \o newImages,
                                   IF ~upload.hadSelection THEN newImages[1]
                                   ELSE selectedImage)
    /\ uploads' = RemoveAt(uploads, u)
    /\ UNCHANGED <<now, batches, awaited>>
    /\ GalleryFrame

\* a millisecond passes
ClockAdvances ==
    /\ now < MaxClock
    /\ now' = now + 1
    /\ UNCHANGED <<gallery, selectedImage, batches, uploads, awaited>>
    /\ GalleryFrame

\* ImageCard k: onClick={() => onSelect(imageState)} (107), onSelect = setSelectedImage
onSelect(k) ==
    /\ k \in DOMAIN gallery
    /\ selectedImage' = Sync(gallery, gallery[k])
    /\ UNCHANGED <<gallery, now, batches, uploads, awaited>>
    /\ GalleryFrame

\* ImageCard k: onAnalyze(imageState.id) (135, 147-169); handleAnalyze up
\* to the await (337-353)
onAnalyze(k) ==
    /\ k \in DOMAIN gallery
    /\ ~gallery[k].isLoading
    /\ Len(awaited) < MaxPending
    /\ LET id == gallery[k].id
           imageToAnalyze == FindById(gallery, id)
       IN /\ ~imageToAnalyze.isLoading
          /\ gallery' = [j \in DOMAIN gallery |->
                            IF gallery[j].id = id
                            THEN [gallery[j] EXCEPT !.isLoading = TRUE, !.error = NoError,
                                                    !.result = NoResult]
                            ELSE gallery[j]]
          /\ awaited' = Append(awaited, [id |-> id, imageToAnalyze |-> imageToAnalyze,
                                           startedAt |-> now])
    /\ selectedImage' = Sync(gallery', selectedImage)
    /\ UNCHANGED <<now, batches, uploads>>
    /\ GalleryFrame

\* 353-361: request r resolves with words; the answer of the service takes
\* more than the millisecond the request was sent in
AnalysisResolved(r) ==
    /\ r \in DOMAIN awaited
    /\ now > awaited[r].startedAt
    /\ LET id == awaited[r].id
           updatedImage == [awaited[r].imageToAnalyze EXCEPT
                               !.result = 1, !.isLoading = FALSE, !.error = NoError]
       IN /\ gallery' = [j \in DOMAIN gallery |->
                            IF gallery[j].id = id THEN updatedImage ELSE gallery[j]]
          /\ selectedImage' = Sync(gallery',
                                   IF selectedImage = NoSelection \/ selectedImage.id = id
                                   THEN updatedImage ELSE selectedImage)
    /\ awaited' = RemoveAt(awaited, r)
    /\ UNCHANGED <<now, batches, uploads>>
    /\ GalleryFrame

\* 362-365: request r fails
AnalysisFailed(r) ==
    /\ r \in DOMAIN awaited
    /\ now > awaited[r].startedAt
    /\ gallery' = [j \in DOMAIN gallery |->
                      IF gallery[j].id = awaited[r].id
                      THEN [gallery[j] EXCEPT !.error = "error", !.isLoading = FALSE]
                      ELSE gallery[j]]
    /\ selectedImage' = Sync(gallery', selectedImage)
    /\ awaited' = RemoveAt(awaited, r)
    /\ UNCHANGED <<now, batches, uploads>>
    /\ GalleryFrame

\* ImageCard k: onRemove(imageState.id) (175-181), handleRemoveImage (377-383)
onRemove(k) ==
    /\ k \in DOMAIN gallery
    /\ LET id == gallery[k].id
           others == SelectSeq(gallery, LAMBDA img : img.id # id)
       IN /\ gallery' = others
          /\ selectedImage' =
                Sync(others,
                     IF selectedImage # NoSelection /\ selectedImage.id = id
                     THEN IF Len(gallery) > 1 /\ others # <<>> THEN others[1]
                          ELSE NoSelection
                     ELSE selectedImage)
    /\ UNCHANGED <<now, batches, uploads, awaited>>
    /\ GalleryFrame

\* 385-388
clearAll ==
    /\ gallery # <<>>
    /\ gallery' = <<>>
    /\ selectedImage' = NoSelection
    /\ UNCHANGED <<now, batches, uploads, awaited>>
    /\ GalleryFrame

\* ResultDisplay is rendered for selectedImage when it has a result (470-477)
ResultShown == selectedImage # NoSelection /\ selectedImage.result # NoResult

\* the states the viewport handlers of the result view hand to onZoomChange
\* (FontShowcase.tsx:78-83, 108-114, 224-230): one zoom step in or out, the
\* reset, a pan
ViewportChanges(zoom) ==
    { [zoom EXCEPT !.scale = ZoomInScale(zoom.scale)],
      [zoom EXCEPT !.scale = ZoomOutScale(zoom.scale)],
      [zoom EXCEPT !.position = Origin] }
    \cup { [zoom EXCEPT !.position = [x |-> dx, y |-> 0]] : dx \in 0..MaxPan }

\* the scales explored with the gallery
GalleryScales == { DEFAULT_SCALE, ZoomInScale(DEFAULT_SCALE) }

\* 399-401: prevImages.map(img => img.id === id ? {...img, zoomState} : img)
ZoomChangeById(gal, id, newZoomState) ==
    [j \in DOMAIN gal |->
        IF gal[j].id = id THEN [gal[j] EXCEPT !.zoomState = newZoomState] ELSE gal[j]]

\* 475: onZoomChange={(newState) => handleZoomChange(selectedImage.id, newState)}
onZoomChange(newZoomState) ==
    /\ ResultShown
    /\ newZoomState \in ViewportChanges(ZoomStateOf(selectedImage))
    /\ newZoomState.scale \in GalleryScales
    /\ newZoomState # ZoomStateOf(selectedImage)
    /\ gallery' = ZoomChangeById(gallery, selectedImage.id, newZoomState)
    /\ selectedImage' = Sync(gallery', selectedImage)
    /\ UNCHANGED <<now, batches, uploads, awaited>>
    /\ GalleryFrame

\* ---------------------------------------------------------- extraction modes
\* part_000:52: ExtractionMode = 'all' | 'arabic' | 'foreign' | 'numbers'
ExtractionModes == {"all", "arabic", "foreign", "numbers"}

\* 251
granularOptions == {"arabic", "foreign", "numbers"}

\* prevModes.filter(m => m !== mode), with mode that of the toggle
Without(modes, mode) == SelectSeq(modes, LAMBDA m : m # mode)

\* 244-249: 'all' is dropped, then the mode is taken out if it is in the
\* list and pushed at its end if not
Toggled(prevModes, mode) ==
    LET newModes == Without(prevModes, "all")
    IN IF mode \in Range(newModes) THEN Without(newModes, mode)
       ELSE Append(newModes, mode)

\* an updater without the check of 251-252
ModeChangeKeepsGranular(prevModes, mode) ==
    IF mode = "all" THEN <<"all">>
    ELSE IF Toggled(prevModes, mode) = <<>> THEN <<"all">>
    ELSE Toggled(prevModes, mode)

\* 242-254, the setExtractionModes updater
ModeChange(prevModes, mode) ==
    IF mode = "all" THEN <<"all">>
    ELSE IF Toggled(prevModes, mode) = <<>> THEN <<"all">>
    ELSE IF granularOptions \subseteq Range(Toggled(prevModes, mode)) THEN <<"all">>
    ELSE Toggled(prevModes, mode)

\* a button of ExtractionModeSelector: onClick={() => onModeChange(option.id)}
\* (206), onModeChange = handleModeChange (241-255); the selector is on the
\* upload page (438) and in the sidebar (454)
handleModeChange(mode) ==
    /\ extractionModes' = ModeChange(extractionModes, mode)
    /\ UNCHANGED <<gallery, selectedImage, now, batches, uploads, awaited>>
    /\ UNCHANGED <<appVars, rdVars, ziVars, outVars, reconVars>>
    /\ UNCHANGED <<sinceEdit, burstEdits, burstCommits, trip>>
    /\ lastEvent' = IF mode = "all" THEN "other"
                    ELSE IF Toggled(extractionModes, mode) = <<>> THEN "modes:none"
                    ELSE IF granularOptions \subseteq Range(Toggled(extractionModes, mode))
                    THEN "modes:every"
                    ELSE "other"

\* ------------------------------------------------------------ specification
Unanalysed ==
    /\ images = [i \in ImageIds |-> NewImage]
    /\ selectedId = 1
    /\ inflight = [i \in ImageIds |-> <<>>]
    /\ isAnalyzingAll = FALSE
    /\ imagesToAnalyze = <<>>
    /\ history = EmptyHistory
    /\ editor = <<>>
    /\ spans = {}
    /\ hoverSpan = NoSpan
    /\ hasEditedSinceLoad = FALSE
    /\ highlightedWord = NoWord
    /\ debounceTimeout = NoTimer
    /\ orphanTimers = {}
    /\ isDragging = FALSE
    /\ startPos = Origin
    /\ isWheeling = FALSE
    /\ wheelTimeout = NoTimer
    /\ sinceEdit = DEBOUNCE_MS
    /\ burstEdits = 0
    /\ burstCommits = 0
    /\ trip = NoTrip
    /\ lastEvent = "other"
    /\ diacriticsVisible = TRUE
    /\ clipboard = NoText
    /\ downloaded = NoText

\* two images have been uploaded, the first is selected, none is analysed
Init ==
    /\ Unanalysed
    /\ input = <<>>
    /\ output = NotRun
    /\ overlay = NotRendered
    /\ EmptyGallery

Next ==
    \/ \E id \in ImageIds : SelectImage(id)
    \/ \E id \in ImageIds : handleAnalyze(id)
    \/ \E id \in ImageIds, k \in 1..MaxRequests, r \in ResultIds : AnalyzeResolved(id, k, r)
    \/ \E id \in ImageIds, k \in 1..MaxRequests : AnalyzeFailed(id, k)
    \/ \E text \in EditTexts \cup Range(history.stack), kept \in {spans, {}} :
            handleInput(text, kept)
    \/ CommitTimerFires
    \/ OrphanTimerFires
    \/ handleUndo
    \/ handleRedo
    \/ \E i \in spans : handleWordEnter(i)
    \/ handleWordSpanMouseLeave
    \/ Tick

Spec == Init /\ [][Next]_vars

\* The viewport of the result view: image 1 has been analysed and is on
\* display, image 2 has not been analysed yet.
\* image 1 has been analysed with result r and is displayed
Displaying(r) ==
    /\ images = [i \in ImageIds |->
                    IF i = 1 THEN [NewImage EXCEPT !.result = r] ELSE NewImage]
    /\ selectedId = 1
    /\ inflight = [i \in ImageIds |-> <<>>]
    /\ isAnalyzingAll = FALSE
    /\ imagesToAnalyze = <<>>
    /\ history = [stack |-> <<InitialText(Analyses[r])>>, index |-> 0]
    /\ editor = InitialText(Analyses[r])
    /\ spans = 1..Len(Analyses[r])
    /\ hoverSpan = NoSpan
    /\ hasEditedSinceLoad = FALSE
    /\ highlightedWord = NoWord
    /\ debounceTimeout = NoTimer
    /\ orphanTimers = {}
    /\ isDragging = FALSE
    /\ startPos = Origin
    /\ isWheeling = FALSE
    /\ wheelTimeout = NoTimer
    /\ sinceEdit = DEBOUNCE_MS
    /\ burstEdits = 0
    /\ burstCommits = 0
    /\ trip = NoTrip
    /\ lastEvent = "other"
    /\ diacriticsVisible = TRUE
    /\ clipboard = NoText
    /\ downloaded = NoText
    /\ input = <<>>
    /\ output = NotRun
    /\ overlay = NotRendered
    /\ EmptyGallery

InitView == Displaying(1)

NextView ==
    \/ \E id \in ImageIds : SelectImage(id)
    \/ handleZoomIn
    \/ handleZoomOut
    \/ handleReset
    \/ \E deltaY \in WheelDeltas : handleWheel(deltaY)
    \/ WheelSettles
    \/ \E button \in Buttons, client \in Pointers : handleMouseDown(button, client)
    \/ \E client \in Pointers : handleMouseMove(client)
    \/ handleMouseUpOrLeave
    \/ Tick

SpecView == InitView /\ [][NextView]_vars

\* The viewport with time passing and due timer callbacks being run: the
\* browser runs the callback of setTimeout (96-98) once its delay is over.
SpecViewLive ==
    /\ InitView
    /\ [][NextView]_vars
    /\ WF_vars(Tick)
    /\ WF_vars(WheelSettles)

\* The gallery: analysis of single images and of all unprocessed images,
\* with the viewport of the displayed image zoomed out and reset.
NextApp ==
    \/ \E id \in ImageIds : SelectImage(id)
    \/ \E id \in ImageIds : handleAnalyze(id)
    \/ \E id \in ImageIds, k \in 1..MaxRequests : AnalyzeEmpty(id, k)
    \/ handleAnalyzeAll
    \/ \E id \in ImageIds, k \in 1..MaxRequests, r \in ResultIds : AnalyzeResolved(id, k, r)
    \/ \E id \in ImageIds, k \in 1..MaxRequests : AnalyzeFailed(id, k)
    \/ handleZoomOut
    \/ handleReset

SpecApp == Init /\ [][NextApp]_vars

\* The editor of the displayed result with its copy and export buttons.
NextExport ==
    \/ \E text \in EditTexts \cup Range(history.stack), kept \in {spans, {}} :
            handleInput(text, kept)
    \/ CommitTimerFires
    \/ handleUndo
    \/ handleRedo
    \/ toggleDiacritics
    \/ copyToClipboard
    \/ handleDownload
    \/ Tick

SpecExport == InitView /\ [][NextExport]_vars

\* Hovering the words of a result that holds the same word twice.
InitHover == Displaying(3)

NextHover ==
    \/ \E id \in ImageIds : SelectImage(id)
    \/ \E i \in spans : handleWordEnter(i)
    \/ handleWordSpanMouseLeave
    \/ \E text \in EditTexts \cup Range(history.stack), kept \in {spans, {}} :
            handleInput(text, kept)
    \/ CommitTimerFires
    \/ OrphanTimerFires
    \/ handleUndo
    \/ handleRedo
    \/ Tick

SpecHover == InitHover /\ [][NextHover]_vars

\* The gallery alone: uploads, selection, analysis, removal and the
\* viewport changes the result view reports.
GalleryZoomStates ==
    { [scale |-> sc, position |-> [x |-> dx, y |-> 0]] :
        sc \in GalleryScales, dx \in 0..MaxPan }

NextGallery ==
    \/ \E n \in 1..MaxBatch : processFiles(n)
    \/ \E u \in 1..MaxUploads : handleImageUpload(u)
    \/ ClockAdvances
    \/ \E k \in 1..MaxGallery : onSelect(k)
    \/ \E k \in 1..MaxGallery : onAnalyze(k)
    \/ \E r \in 1..MaxPending : AnalysisResolved(r)
    \/ \E r \in 1..MaxPending : AnalysisFailed(r)
    \/ \E k \in 1..MaxGallery : onRemove(k)
    \/ clearAll
    \/ \E newZoomState \in GalleryZoomStates : onZoomChange(newZoomState)

SpecGallery == Init /\ [][NextGallery]_vars

\* The mode selector, on the upload page and beside the gallery: toggles
\* between uploads, selections and clear-all.
NextModes ==
    \/ \E mode \in ExtractionModes : handleModeChange(mode)
    \/ \E n \in 1..MaxBatch : processFiles(n)
    \/ \E u \in 1..MaxUploads : handleImageUpload(u)
    \/ \E k \in 1..MaxGallery : onSelect(k)
    \/ clearAll

SpecModes == Init /\ [][NextModes]_vars

\* The reconstruction effect alone, over every list of at most MaxWords
\* words of the pool.
InitRecon ==
    /\ Unanalysed
    /\ input \in WordLists
    /\ output = NotRun
    /\ overlay = NotRendered
    /\ EmptyGallery

\* 242-286 run for result.words = input
ReconstructionEffect ==
    /\ output = NotRun
    /\ output' = Reconstruction(input)
    /\ UNCHANGED <<input, overlay, appVars, rdVars, ziVars, outVars, galleryVars, obsVars>>

NextRecon == ReconstructionEffect

SpecRecon == InitRecon /\ [][NextRecon]_vars

\* The overlay alone, over the same lists.
InitOverlay == InitRecon

\* 151-173 rendered for words = input
RenderOverlay ==
    /\ overlay = NotRendered
    /\ overlay' = Overlay(input)
    /\ UNCHANGED <<input, output, appVars, rdVars, ziVars, outVars, galleryVars, obsVars>>

NextOverlay == RenderOverlay

SpecOverlay == InitOverlay /\ [][NextOverlay]_vars

\* ------------------------------------------------------------------ claims
IsInput == \E text \in EditTexts \cup Range(history.stack), kept \in {spans, {}} :
               handleInput(text, kept)

\* C1: in every reachable state 0 <= cursor < length(snapshots); the
\* snapshot sequence is never empty and snapshots[cursor] is defined.
CursorInRange ==
    /\ history.stack # <<>>
    /\ history.index >= 0
    /\ history.index < Len(history.stack)

\* a history that has been committed to twice and undone once
CursorInRangeWitness ==
    /\ Mounted
    /\ Len(history.stack) = 3
    /\ history.index = 1
    /\ lastEvent = "undo"

\* C2: N - 1 undos from the tail of N snapshots followed by N - 1 redos
\* leave the cursor at the tail and the editor holding the last snapshot,
\* and no undo or redo of the run changes the snapshot sequence.
RoundTripRestores ==
    /\ trip.phase # "idle" => history.stack = trip.stack
    /\ (trip.phase = "redo" /\ trip.redos = trip.undos
            /\ trip.undos = Len(trip.stack) - 1)
        => /\ history.index = Len(history.stack) - 1
           /\ history.stack = trip.stack
           /\ editor = trip.stack[Len(trip.stack)]

\* two undos then two redos over three distinct snapshots
RoundTripWitness ==
    /\ trip.phase = "redo"
    /\ Len(trip.stack) = 3
    /\ trip.undos = 2
    /\ trip.redos = 2
    /\ Cardinality(Range(trip.stack)) = 3

\* C3: a commit of a text other than snapshots[cursor] made while redo is
\* possible discards every snapshot beyond the cursor, appends the text,
\* moves the cursor to the new tail (canRedo is false) and keeps
\* snapshots[0..old cursor].
CommitTruncatesRedo ==
    [][(CommitTimerFires /\ editor # Current(history) /\ canRedo)
        => /\ history'.stack = Append(SubSeq(history.stack, 1, history.index + 1), editor)
           /\ Len(history'.stack) = history.index + 2
           /\ history'.index = Len(history'.stack) - 1
           /\ ~canRedo'
           /\ SubSeq(history'.stack, 1, history.index + 1)
                = SubSeq(history.stack, 1, history.index + 1)]_vars

\* the commit that followed an undo has just run
CommitTruncatesWitness ==
    /\ lastEvent = "commit:truncate"
    /\ Len(history.stack) = 2
    /\ history.index = 1

\* C4: a commit of the text that is snapshots[cursor] changes neither the
\* snapshot sequence nor the cursor; redo-able snapshots are kept.
IdenticalCommitIsNoOp ==
    [][(CommitTimerFires /\ editor = Current(history)) => UNCHANGED history]_vars

\* such a commit has run below the tail and redo is still possible
IdenticalCommitWitness ==
    /\ lastEvent = "commit:same"
    /\ hasEditedSinceLoad
    /\ canRedo

\* C5: undo does nothing at cursor 0 and otherwise moves the cursor down by
\* one; redo does nothing at the tail and otherwise moves it up by one; a
\* move puts snapshots[new cursor] in the editor and leaves the snapshot
\* sequence alone; undo is possible iff cursor > 0, redo iff cursor < length - 1.
UndoRedoSteps ==
    [][/\ handleUndo =>
            IF history.index = 0
            THEN UNCHANGED <<history, editor>>
            ELSE /\ history'.index = history.index - 1
                 /\ history'.stack = history.stack
                 /\ editor' = history.stack[history'.index + 1]
       /\ handleRedo =>
            IF history.index = Len(history.stack) - 1
            THEN UNCHANGED <<history, editor>>
            ELSE /\ history'.index = history.index + 1
                 /\ history'.stack = history.stack
                 /\ editor' = history.stack[history'.index + 1]
       /\ canUndo' <=> history'.index > 0
       /\ canRedo' <=> history'.index < Len(history'.stack) - 1]_vars

\* an undo over an uncommitted edit: the editor shows the snapshot below
UndoRedoWitness ==
    /\ lastEvent = "undo"
    /\ canRedo
    /\ debounceTimeout # NoTimer
    /\ editor = Current(history)
    /\ editor # history.stack[history.index + 2]

\* C6: snapshots[0] is the text reconstructed from the displayed word set,
\* whatever commits, undos and redos happened since the reconstruction.
FirstSnapshotIsReconstruction ==
    Mounted => history.stack[1] = InitialText(Words)

\* a second session, committed to and undone
FirstSnapshotWitness ==
    /\ Mounted
    /\ selectedId = 2
    /\ Len(history.stack) = 3
    /\ history.index = 0
    /\ history.stack[1] = InitialText(Words)

\* C7: every edit event restarts the 500 ms timer; a snapshot is appended
\* only when 500 ms have passed without an edit event, and a burst of edit
\* events less than 500 ms apart appends at most one snapshot.
EditsAreCoalesced ==
    /\ [](burstCommits <= 1)
    /\ [][IsInput => debounceTimeout' = DEBOUNCE_MS]_vars
    /\ [][(CommitTimerFires /\ history' # history) => sinceEdit >= DEBOUNCE_MS]_vars
    /\ [][(Mounted /\ Mounted' /\ selectedId' = selectedId
                /\ history'.stack # history.stack) => CommitTimerFires]_vars

\* a burst of several edits has ended in one snapshot
EditsAreCoalescedWitness ==
    /\ burstEdits = 2
    /\ burstCommits = 1
    /\ debounceTimeout = NoTimer
    /\ Len(history.stack) = 2

\* C8: once an edit event has happened the highlight is null and no hover
\* event changes it; the latch is released only when the word set is
\* replaced (another image selected, or the view remounted for a new result).
HighlightLatch ==
    /\ [](hasEditedSinceLoad => highlightedWord = NoWord)
    /\ [][IsInput => hasEditedSinceLoad' /\ highlightedWord' = NoWord]_vars
    /\ [][(hasEditedSinceLoad /\ ~hasEditedSinceLoad')
            => (selectedId' # selectedId \/ ~Mounted')]_vars

\* the pointer entered a word span after an edit
HighlightLatchWitness ==
    /\ hasEditedSinceLoad
    /\ lastEvent = "wordEnter"
    /\ hoverSpan # NoSpan
    /\ highlightedWord = NoWord

\* C9: reset leaves the persisted viewport of the displayed image at
\* scale 1 and position {0, 0}, whatever they were before.
ResetRestoresDefault ==
    [][handleReset => /\ images'[selectedId].zoomState.scale = DEFAULT_SCALE
                      /\ images'[selectedId].zoomState.position = Origin]_vars

\* C10: the scale of every image stays within [0.5, 5] under zoomIn,
\* zoomOut, wheel, drag and reset; zoomIn yields min(scale * 1.2, 5) and
\* zoomOut yields max(scale / 1.2, 0.5).
ZoomBounds ==
    /\ [](\A id \in ImageIds : /\ ZoomStateOf(images[id]).scale >= MIN_SCALE
                               /\ ZoomStateOf(images[id]).scale <= MAX_SCALE)
    /\ [][handleZoomIn =>
            zoomState'.scale = Min((zoomState.scale * 12) \div 10, MAX_SCALE)]_vars
    /\ [][handleZoomOut =>
            zoomState'.scale = Max((zoomState.scale * 10) \div 12, MIN_SCALE)]_vars

\* a zoom-in step that was clamped at the maximum, on a panned image
ZoomBoundsWitness ==
    /\ Mounted
    /\ lastEvent = "zoomIn"
    /\ zoomState.scale = MAX_SCALE
    /\ zoomState.position # Origin

\* C11: a wheel event applies exactly one zoom step whatever the magnitude
\* of deltaY: one zoomIn step for a negative deltaY, one zoomOut step for a
\* positive deltaY; position is left alone.
WheelIsOneStep ==
    [][\A deltaY \in WheelDeltas :
          (lastEvent' = "wheel" /\ handleWheel(deltaY)) =>
            /\ deltaY < 0 =>
                  zoomState'.scale = Min((zoomState.scale * 12) \div 10, MAX_SCALE)
            /\ deltaY > 0 =>
                  zoomState'.scale = Max((zoomState.scale * 10) \div 12, MIN_SCALE)
            /\ zoomState'.position = zoomState.position]_vars

\* a wheel event has just zoomed a panned image in by a step short of the clamp
WheelIsOneStepWitness ==
    /\ lastEvent = "wheel"
    /\ isWheeling
    /\ wheelTimeout = WHEEL_SETTLE_MS
    /\ zoomState.scale = 12
    /\ zoomState.position # Origin

\* C12: a left-button press at p0 records the anchor p0 - position; every
\* move at p while the drag is active sets position = p - anchor exactly
\* (no clamping), so position - pointer stays the negated anchor during the
\* drag; scale is left alone.
DragFollowsPointer ==
    [][/\ \A client \in Pointers :
            handleMouseDown(0, client) =>
                /\ isDragging'
                /\ startPos'.x = client.x - zoomState.position.x
                /\ startPos'.y = client.y - zoomState.position.y
                /\ zoomState' = zoomState
       /\ \A client \in Pointers :
            (isDragging /\ lastEvent' = "drag" /\ handleMouseMove(client)) =>
                /\ zoomState'.position.x = client.x - startPos.x
                /\ zoomState'.position.y = client.y - startPos.y
                /\ zoomState'.position.x - client.x = 0 - startPos'.x
                /\ zoomState'.position.y - client.y = 0 - startPos'.y
                /\ zoomState'.scale = zoomState.scale]_vars

\* a second drag of an image that an earlier drag had moved: the anchor
\* is off the pointer and the image has followed the pointer again
DragFollowsPointerWitness ==
    /\ lastEvent = "drag"
    /\ isDragging
    /\ startPos = [x |-> 0 - 1, y |-> 1]
    /\ zoomState.position = [x |-> 1, y |-> 0]

\* C13: the viewport stored for an image changes only through a viewport
\* operation (zoomIn, zoomOut, wheel, drag, reset) performed while that
\* image is displayed; selecting images and analyses completing leave it alone.
ViewportPersists ==
    [][\A id \in ImageIds :
          ZoomStateOf(images'[id]) # ZoomStateOf(images[id])
            => /\ Mounted
               /\ id = selectedId
               /\ \/ handleZoomIn
                  \/ handleZoomOut
                  \/ handleReset
                  \/ \E deltaY \in WheelDeltas : handleWheel(deltaY)
                  \/ \E client \in Pointers : handleMouseMove(client)]_vars

\* ---- reconstruction claims: vocabulary
WellFormed(words) == \A i \in DOMAIN words : words[i].boundingBox # NoBox

\* the y of the reference word of a line: the smallest y in it
TopOf(line) ==
    CHOOSE y \in { line[i].boundingBox.y : i \in DOMAIN line } :
        \A i \in DOMAIN line : y <= line[i].boundingBox.y

RECURSIVE WordsOfLines(_)
WordsOfLines(lines) ==
    IF lines = <<>> THEN <<>> ELSE Head(lines) \o WordsOfLines(Tail(lines))

\* how many words the first l lines hold
WordsUpTo(lines, l) == Len(WordsOfLines(SubSeq(lines, 1, l)))

\* twice the distance of the vertical centres of two words
CentreDistance2(a, b) ==
    Abs((2 * a.boundingBox.y + a.boundingBox.height)
        - (2 * b.boundingBox.y + b.boundingBox.height))

\* of two words, the one the y sort puts first (the first of the list on a tie)
ReferenceOf(pair) ==
    IF pair[2].boundingBox.y < pair[1].boundingBox.y THEN pair[2] ELSE pair[1]
FollowerOf(pair) ==
    IF pair[2].boundingBox.y < pair[1].boundingBox.y THEN pair[1] ELSE pair[2]

\* C14: lines come in ascending order of their reference word's y, the
\* words of a line in descending order of x, words are joined by one space
\* and lines by one newline, every word is emitted once; B(y .5, x .1),
\* A(y .5, x .3), C(y .1, x .2) of height .05 give "C\nA B".
ReconstructionOrdering ==
    (output.status = "done" /\ WellFormed(input)) =>
        LET lines == output.lines
            text == output.text
            flat == WordsOfLines(lines)
            lineEnds == { WordsUpTo(lines, l) : l \in 1..(Len(lines) - 1) }
        IN /\ \A i, j \in DOMAIN lines : i < j => TopOf(lines[i]) <= TopOf(lines[j])
           /\ \A l \in DOMAIN lines : \A i, j \in DOMAIN lines[l] :
                  i < j => lines[l][i].boundingBox.x >= lines[l][j].boundingBox.x
           /\ \A l \in DOMAIN lines : lines[l] # <<>>
           /\ Len(flat) = Len(input)
           /\ \A w \in Range(input) :
                  Cardinality({ i \in DOMAIN flat : flat[i] = w })
                    = Cardinality({ i \in DOMAIN input : input[i] = w })
           /\ Len(text) = IF input = <<>> THEN 0 ELSE 2 * Len(input) - 1
           /\ \A k \in DOMAIN text :
                  IF k % 2 = 1 THEN text[k] = flat[(k + 1) \div 2].text
                  ELSE text[k] = IF (k \div 2) \in lineEnds THEN "\n" ELSE " "
           /\ input = << Word("B", 10, 50, 10, 5), Word("A", 30, 50, 10, 5),
                         Word("C", 20, 10, 10, 5) >>
                => text = << "C", "\n", "A", " ", "B" >>

\* the example of the claim has been reconstructed
ReconstructionOrderingWitness ==
    /\ output.status = "done"
    /\ input = << Word("B", 10, 50, 10, 5), Word("A", 30, 50, 10, 5),
                  Word("C", 20, 10, 10, 5) >>
    /\ output.text = << "C", "\n", "A", " ", "B" >>
    /\ Len(output.lines) = 2

\* C15: the grouping threshold is strict: of two words, the one whose
\* centre is exactly 0.7 * referenceHeight from the reference's centre starts
\* a new line, one that is nearer (0.69 * referenceHeight, say) joins the line.
StrictThreshold ==
    (output.status = "done" /\ Len(input) = 2 /\ WellFormed(input)) =>
        LET ref == ReferenceOf(input)
            word == FollowerOf(input)
        IN /\ 5 * CentreDistance2(word, ref) = 7 * ref.boundingBox.height
                => Len(output.lines) = 2
           /\ 5 * CentreDistance2(word, ref) < 7 * ref.boundingBox.height
                => Len(output.lines) = 1
           /\ (ref.boundingBox.height = 100 /\ CentreDistance2(word, ref) = 2 * 69)
                => Len(output.lines) = 1

\* a word 0.69 heights below the reference has joined its line, a word
\* 0.70 heights below it has started the next
StrictThresholdWitness ==
    /\ output.status = "done"
    /\ input = << Word("T", 10, 0, 10, 100), Word("V", 30, 70, 10, 100),
                  Word("U", 20, 69, 10, 100) >>
    /\ Len(output.lines) = 2
    /\ Len(output.lines[1]) = 2
    /\ output.text = << "U", " ", "T", "\n", "V" >>

\* C16: when the reference word of a line has height 0, a following word
\* with the same vertical centre joins the line and a following word with
\* any other centre starts a new line.
ZeroHeightGuard ==
    (output.status = "done" /\ Len(input) = 2 /\ WellFormed(input)
        /\ ReferenceOf(input).boundingBox.height = 0) =>
        IF CentreDistance2(FollowerOf(input), ReferenceOf(input)) = 0
        THEN Len(output.lines) = 1
        ELSE Len(output.lines) = 2

\* C17: reconstruction of a list in which a word has no boundingBox
\* completes, emits every word, treats the word as a zero-size box and
\* initialises the history with the text.
NeverAborts ==
    output.status # "not run" =>
        LET repaired == [i \in DOMAIN input |->
                            IF input[i].boundingBox = NoBox
                            THEN Word(input[i].text, 0, 0, 0, 0) ELSE input[i]]
        IN /\ output.status = "done"
           /\ Len(WordsOfLines(output.lines)) = Len(input)
           /\ output.text = InitialText(repaired)
           /\ output.stack = << output.text >>

\* C18: when the result view is unmounted or the displayed image is
\* switched while the 500 ms commit timer or the 150 ms wheel timer is
\* pending, the timer is cancelled: no timer of the view that was torn
\* down is left to run its callback.
TimersCancelledOnTeardown ==
    [][(Mounted /\ (~Mounted' \/ selectedId' # selectedId))
        => /\ debounceTimeout' = NoTimer
           /\ wheelTimeout' = NoTimer
           /\ orphanTimers' = orphanTimers]_vars

\* C19: when the word set of the result view changes (the view is mounted
\* for a fresh result, or another analysed image is selected) the history
\* becomes the single snapshot holding the newly reconstructed text with
\* cursor 0, and the edited-since-load latch is cleared.
HistoryReplacedOnNewWords ==
    [][(Mounted' /\ (~Mounted \/ selectedId' # selectedId))
        => /\ history' = [stack |-> << InitialText(Words') >>, index |-> 0]
           /\ editor' = InitialText(Words')
           /\ ~hasEditedSinceLoad']_vars

\* another analysed image was selected while an edit of the previous
\* session was still waiting for its commit
HistoryReplacedWitness ==
    /\ Mounted
    /\ selectedId = 2
    /\ ~hasEditedSinceLoad
    /\ debounceTimeout # NoTimer
    /\ Len(history.stack) = 1
    /\ images[1].result # NoResult

\* C20: copy and export receive snapshots[cursor] while diacritics are
\* visible and removeDiacritics(snapshots[cursor]) while they are hidden;
\* the toggle changes neither snapshots nor cursor, and toggling back
\* yields the text that was exported before.
ExportedText ==
    /\ [][copyToClipboard =>
            /\ clipboard' = IF diacriticsVisible THEN Current(history)
                             ELSE removeDiacritics(Current(history))
            /\ ~diacriticsVisible => Range(clipboard') \cap DiacriticMarks = {}
            /\ UNCHANGED history]_vars
    /\ [][handleDownload =>
            /\ downloaded' = IF diacriticsVisible THEN Current(history)
                              ELSE removeDiacritics(Current(history))
            /\ UNCHANGED history]_vars
    /\ [][toggleDiacritics =>
            /\ UNCHANGED history
            /\ diacriticsVisible' = ~diacriticsVisible
            /\ getTextToProcess(history', ~diacriticsVisible')
                    = getTextToProcess(history, diacriticsVisible)]_vars

\* a committed snapshot with a diacritic was copied with diacritics hidden
ExportedTextWitness ==
    /\ lastEvent = "copy"
    /\ ~diacriticsVisible
    /\ history.index >= 1
    /\ Range(Current(history)) \cap DiacriticMarks # {}
    /\ clipboard = << "x" >>

\* ---- reconstruction claims, continued: vocabulary
Count(s, w) == Cardinality({ i \in DOMAIN s : s[i] = w })

IsPermutationOf(s, t) ==
    /\ Len(s) = Len(t)
    /\ \A w \in Range(s) \cup Range(t) : Count(s, w) = Count(t, w)

\* the input list in another order
Reordered(words, p) == [i \in DOMAIN words |-> words[p[i]]]

\* C24: the reconstructed text is a function of the set of words and not
\* of the order the list holds them in: every reordering of the input list
\* gives the same text, also when words share a y or an x.
OrderIndependent ==
    (output.status = "done" /\ WellFormed(input)) =>
        \A p \in Permutations(DOMAIN input) :
            Reconstruction(Reordered(input, p)).text = output.text

\* C26: for an empty word list the reconstruction leaves an empty editor
\* and the history is the single snapshot "" with cursor 0.
EmptyWordList ==
    (output.status # "not run" /\ input = <<>>) =>
        /\ output.status = "done"
        /\ output.lines = <<>>
        /\ output.text = <<>>
        /\ output.stack = << <<>> >>
        /\ Len(output.stack) = 1
        /\ output.index = 0

\* the effect has run for the empty list
EmptyWordListWitness ==
    /\ input = <<>>
    /\ output.status = "done"
    /\ output.stack = << <<>> >>

\* C30: the lines are consecutive runs of the list sorted by y; the
\* reference of a line is the first word of its run, every other word of
\* the run has its centre less than 0.7 * referenceHeight from the centre of
\* that first word, and the word that starts the next line is one that does
\* not.
FixedReference ==
    (output.status = "done" /\ WellFormed(input)) =>
        LET lines == output.lines
            sorted == SortBy("y", input)
            first(l) == WordsUpTo(lines, l - 1) + 1
            last(l) == WordsUpTo(lines, l)
        IN /\ WordsUpTo(lines, Len(lines)) = Len(input)
           /\ \A l \in DOMAIN lines :
                /\ first(l) <= last(l)
                /\ IsPermutationOf(lines[l], SubSeq(sorted, first(l), last(l)))
                /\ \A k \in (first(l) + 1)..last(l) :
                      5 * CentreDistance2(sorted[k], sorted[first(l)])
                        < 7 * sorted[first(l)].boundingBox.height
                /\ l < Len(lines) =>
                      5 * CentreDistance2(sorted[first(l + 1)], sorted[first(l)])
                        >= 7 * sorted[first(l)].boundingBox.height

\* V is 0.01 below U and 0.70 below T: it is measured against T, the first
\* word of the line, and starts the next line
FixedReferenceWitness ==
    /\ output.status = "done"
    /\ input = << Word("V", 30, 70, 10, 100), Word("U", 20, 69, 10, 100),
                  Word("T", 10, 0, 10, 100) >>
    /\ output.lines = << << Word("U", 20, 69, 10, 100), Word("T", 10, 0, 10, 100) >>,
                         << Word("V", 30, 70, 10, 100) >> >>

\* ---- overlay claims
\* C28: the region of a word is the percentage conversion of its box,
\* component by component and without clamping: left = x * 100,
\* top = y * 100, width = width * 100, height = height * 100; a box of
\* width or height 0 gives a region of that size 0 and no error, and equal
\* boxes give equal regions.
RegionIsPercentage ==
    /\ (overlay.status # "not rendered" /\ WellFormed(input))
          => overlay.status = "rendered"
    /\ overlay.status = "rendered" =>
        /\ Len(overlay.regions) = Len(input)
        /\ \A i \in DOMAIN input :
            LET box == input[i].boundingBox
                region == overlay.regions[i]
            IN /\ region.left = 100 * box.x
               /\ region.top = 100 * box.y
               /\ region.width = 100 * box.width
               /\ region.height = 100 * box.height
               /\ box.height = 0 => region.height = 0
               /\ box.width = 0 => region.width = 0
        /\ \A i, j \in DOMAIN input :
               input[i].boundingBox = input[j].boundingBox
                 => overlay.regions[i] = overlay.regions[j]

\* a flat box, a box reaching 0.69 below the image and the same box again
\* have been rendered
RegionIsPercentageWitness ==
    /\ overlay.status = "rendered"
    /\ input = << Word("Z", 10, 30, 10, 0), Word("U", 20, 69, 10, 100),
                  Word("U", 20, 69, 10, 100) >>
    /\ overlay.regions[1].height = 0
    /\ overlay.regions[2].top + overlay.regions[2].height = 169 * 100
    /\ overlay.regions[3] = overlay.regions[2]

\* C29: the region rendered for a word lies within the image: left, top,
\* left + width and top + height are all between 0% and 100%, whatever the
\* box.
RegionWithinImage ==
    overlay.status = "rendered" =>
        \A i \in DOMAIN overlay.regions :
            LET region == overlay.regions[i]
            IN /\ 0 <= region.left /\ region.left <= FULL
               /\ 0 <= region.top /\ region.top <= FULL
               /\ 0 <= region.left + region.width
               /\ region.left + region.width <= FULL
               /\ 0 <= region.top + region.height
               /\ region.top + region.height <= FULL

\* ---- drag claims
\* C27: ending a drag clears the drag flag and changes nothing else, and
\* ending it again changes nothing at all; a pointer move while no drag is
\* active leaves position and scale as they are; the flag is raised by a
\* press of the main button only, and the stored position of an image
\* changes only by a move during an active drag of the displayed image or
\* by reset.
DragLifecycle ==
    [][/\ (lastEvent' = "mouseUp" /\ handleMouseUpOrLeave) =>
            /\ ~isDragging'
            /\ UNCHANGED <<startPos, images, selectedId>>
       /\ (~isDragging /\ lastEvent' = "mouseUp" /\ handleMouseUpOrLeave) =>
            UNCHANGED <<appVars, rdVars, ziVars>>
       /\ (~isDragging /\ (images' # images \/ ziVars' # ziVars)) =>
            \A client \in Pointers : ~handleMouseMove(client)
       /\ (isDragging' /\ ~isDragging) =>
            \E client \in Pointers : handleMouseDown(0, client)
       /\ \A id \in ImageIds :
            ZoomStateOf(images'[id]).position # ZoomStateOf(images[id]).position
              => /\ Mounted
                 /\ id = selectedId
                 /\ \/ isDragging /\ \E client \in Pointers : handleMouseMove(client)
                    \/ handleReset]_vars

\* a drag that moved the image has been ended
DragLifecycleWitness ==
    /\ lastEvent = "mouseUp"
    /\ ~isDragging
    /\ startPos # Origin
    /\ zoomState.position = [x |-> 1, y |-> 1]

\* ---- smoothing claims
\* C21: the transform transition is off exactly while a drag is active or
\* a wheel burst is in progress; every wheel event marks the burst and
\* restarts the 150 ms timer; the burst ends when the timer runs out (or
\* the view goes away), never otherwise; and once wheel events have ceased
\* the burst does end, so that smoothing is on again whenever no drag is
\* active.
SmoothingOffWhileMoving ==
    /\ [](Mounted =>
            (transition(isDragging, isWheeling) = "none" <=> (isDragging \/ isWheeling)))
    /\ [](Mounted => (isWheeling <=> wheelTimeout # NoTimer))
    /\ [][\A deltaY \in WheelDeltas :
            (lastEvent' = "wheel" /\ handleWheel(deltaY)) =>
                /\ isWheeling'
                /\ wheelTimeout' = WHEEL_SETTLE_MS
                /\ transition(isDragging', isWheeling') = "none"]_vars
    /\ [][(isWheeling /\ ~isWheeling') =>
            \/ WheelSettles /\ wheelTimeout = 0
            \/ ~Mounted']_vars
    /\ [][WheelSettles =>
            (~isDragging' => transition(isDragging', isWheeling') # "none")]_vars
    /\ (<>[][~(lastEvent' = "wheel" /\ \E deltaY \in WheelDeltas : handleWheel(deltaY))]_vars)
          => <>[](/\ ~isWheeling
                  /\ ~isDragging => transition(isDragging, isWheeling) # "none")

\* the timer of a wheel burst has run out while no drag is active: the
\* next step re-enables smoothing
SmoothingOffWhileMovingWitness ==
    /\ Mounted
    /\ isWheeling
    /\ wheelTimeout = 0
    /\ ~isDragging
    /\ transition(isDragging, isWheeling) = "none"

\* ---- highlight claims
\* C22: at most one region of the overlay is highlighted, and it is the
\* region of the word entry the pointer is on: of two entries with the
\* same text and the same box, hovering one highlights its region and not
\* the other's.
OneRegionHighlighted ==
    Mounted =>
        LET highlighted == { word \in OverlayWords : isHighlighted(word) }
        IN /\ Cardinality(highlighted) <= 1
           /\ \A word \in highlighted : hoverSpan = word.idx
           /\ (hoverSpan # NoSpan /\ ~hasEditedSinceLoad)
                => highlighted = { [img |-> selectedId, idx |-> hoverSpan] }

\* the pointer is on the first of two equal entries
OneRegionHighlightedWitness ==
    /\ Mounted
    /\ Len(Words) = 2
    /\ Words[1] = Words[2]
    /\ hoverSpan = 1
    /\ isHighlighted([img |-> selectedId, idx |-> 1])
    /\ ~isHighlighted([img |-> selectedId, idx |-> 2])

\* ---- analysis claims
\* C25: a response without words is turned into a failure: the image's
\* error is set and its result is null, so the result view is not shown
\* for it; an image that has a result has at least one word.
EmptyResponseIsFailure ==
    /\ [][\A id \in ImageIds, k \in 1..MaxRequests :
            AnalyzeEmpty(id, k) =>
                /\ images'[id].error = NoTextError
                /\ images'[id].result = NoResult
                /\ ~MountedIn(images', id)]_vars
    /\ [](\A id \in ImageIds :
            images[id].result # NoResult => Len(Analyses[images[id].result]) >= 1)

\* ---- gallery claims
\* the place in the gallery of the image the result view shows, 0 if none
DisplayedAt ==
    IF ResultShown /\ HasId(gallery, selectedImage.id)
    THEN CHOOSE k \in DOMAIN gallery :
            gallery[k].id = selectedImage.id
              /\ \A j \in DOMAIN gallery : gallery[j].id = selectedImage.id => k <= j
    ELSE 0

\* C23: a zoom, pan or reset of the displayed image leaves the viewport
\* state, the result and the error of every other image of the gallery as
\* they are, whatever uploads and selections came before.
SessionsIsolated ==
    [][(\E newZoomState \in GalleryZoomStates : onZoomChange(newZoomState)) =>
          \A k \in DOMAIN gallery :
              k # DisplayedAt =>
                  /\ gallery'[k].zoomState = gallery[k].zoomState
                  /\ gallery'[k].result = gallery[k].result
                  /\ gallery'[k].error = gallery[k].error]_vars

\* ---- reconstruction claims, continued: tokens
\* the spans of the editor, line after line
RECURSIVE Flatten(_)
Flatten(lines) ==
    IF lines = <<>> THEN <<>> ELSE Head(lines) \o Flatten(Tail(lines))

\* C31: the reconstruction is a permutation of its input: every entry of
\* the word list is the source of exactly one token of exactly one line, so
\* that there are as many tokens as words; a token shows the text of its
\* source word and refers back to that very entry; and the word list is
\* left in the order and with the contents it had.
TokensArePermutation ==
    output.status = "done" =>
        LET flat == Flatten(output.tokens)
        IN /\ Len(flat) = Len(input)
           /\ \A i \in DOMAIN input :
                 Cardinality({ k \in DOMAIN flat : flat[k].word = i }) = 1
           /\ \A k \in DOMAIN flat :
                 /\ flat[k].word \in DOMAIN input
                 /\ flat[k].textContent = input[flat[k].word].text
           /\ Len(output.lines) = Len(output.tokens)
           /\ \A l \in DOMAIN output.tokens :
                 /\ Len(output.lines[l]) = Len(output.tokens[l])
                 /\ Len(output.tokens[l]) >= 1
                 /\ \A k \in DOMAIN output.tokens[l] :
                       output.lines[l][k] = input[output.tokens[l][k].word]
           /\ IsPermutationOf(Flatten(output.lines), input)
           /\ output.words = input

\* two entries with the same text and box and a third word above them:
\* three tokens on two lines, in another order than the list
TokensArePermutationWitness ==
    /\ output.status = "done"
    /\ input = << Word("A", 30, 50, 10, 5), Word("A", 30, 50, 10, 5),
                  Word("C", 20, 10, 10, 5) >>
    /\ Len(output.tokens) = 2
    /\ output.tokens[1][1].word = 3
    /\ output.tokens[2][1].word # output.tokens[2][2].word

\* ---- editor claims, continued
\* C32: whenever no commit timer is pending the editor holds
\* snapshots[cursor]; the timer's callback leaves them equal, so that they
\* agree again once the quiet period after a burst of edits is over; copy
\* and download hand out the snapshot at the cursor (less the diacritics
\* when these are hidden) and not the editor's text, also while a timer is
\* pending; an undo or a redo that takes a step puts the snapshot it moves
\* to into the editor and leaves the stack alone, so that the pending
\* callback then finds nothing to commit.
BufferIsSnapshotWhenQuiet ==
    /\ [](debounceTimeout = NoTimer => editor = Current(history))
    /\ [][(debounceTimeout = 0 /\ CommitTimerFires) =>
            /\ debounceTimeout' = NoTimer
            /\ editor' = Current(history')]_vars
    /\ [][(lastEvent' = "copy" /\ copyToClipboard) =>
            clipboard' = IF diacriticsVisible THEN Current(history)
                         ELSE removeDiacritics(Current(history))]_vars
    /\ [][(lastEvent' = "download" /\ handleDownload) =>
            downloaded' = IF diacriticsVisible THEN Current(history)
                          ELSE removeDiacritics(Current(history))]_vars
    /\ [][((lastEvent' = "undo" /\ handleUndo)
            \/ (history'.index = history.index + 1 /\ handleRedo)) =>
            /\ editor' = Current(history')
            /\ history'.stack = history.stack
            /\ UNCHANGED debounceTimeout
            /\ Commit(history', editor') = history']_vars

\* a copy taken while an edit awaits its commit: the clipboard holds the
\* snapshot at the cursor, the editor another text
BufferIsSnapshotWitness ==
    /\ lastEvent = "copy"
    /\ debounceTimeout # NoTimer
    /\ history.index > 0
    /\ editor # Current(history)
    /\ clipboard = Current(history)

\* C33: a commit timer armed in one session appends no snapshot to the
\* history of a later one.  A timer that is pending while the latch is
\* clear was armed before the word set was replaced, with no edit since:
\* the history then is the single reconstructed snapshot with cursor 0 and
\* the timer's callback leaves it so; the callback of a timer whose view
\* was unmounted changes neither history nor editor.
StaleTimerAppendsNothing ==
    /\ []((debounceTimeout # NoTimer /\ ~hasEditedSinceLoad) =>
            /\ Mounted
            /\ history = [stack |-> << InitialText(Words) >>, index |-> 0])
    /\ [][(debounceTimeout = 0 /\ ~hasEditedSinceLoad /\ CommitTimerFires) =>
            /\ history' = [stack |-> << InitialText(Words) >>, index |-> 0]
            /\ Len(history'.stack) = 1
            /\ history'.index = 0
            /\ editor' = InitialText(Words)]_vars
    /\ [][(0 \in orphanTimers /\ OrphanTimerFires) =>
            UNCHANGED <<history, editor, debounceTimeout>>]_vars

\* the timer of an edit of image 1 has run out after image 2 was selected
\* and before anything was typed there: nothing was committed
StaleTimerWitness ==
    /\ lastEvent = "commit:same"
    /\ selectedId = 2
    /\ Mounted
    /\ ~hasEditedSinceLoad
    /\ debounceTimeout = NoTimer
    /\ history = [stack |-> << InitialText(Words) >>, index |-> 0]

\* ---- history claims, continued
\* a step of undo or of redo that moves the cursor
UndoOrRedoStep ==
    \/ lastEvent' = "undo" /\ handleUndo
    \/ history'.index = history.index + 1 /\ handleRedo

AdjacentSnapshotsDiffer ==
    \A i \in 1..(Len(history.stack) - 1) : history.stack[i] # history.stack[i + 1]

\* C34 as stated: no two adjacent snapshots are equal, so every undo or
\* redo step changes the text of the editor.
EveryStepChangesBuffer ==
    /\ []AdjacentSnapshotsDiffer
    /\ [][UndoOrRedoStep => editor' # editor]_vars

\* C34: no two adjacent snapshots of a reachable history are equal, so
\* every undo or redo step moves the cursor to a snapshot that differs from
\* the one it leaves, and changes the text of the editor whenever the
\* editor held the snapshot at the cursor, as it does whenever no commit
\* timer is pending.
NoEqualNeighbours ==
    /\ []AdjacentSnapshotsDiffer
    /\ [][UndoOrRedoStep =>
            /\ Current(history') # Current(history)
            /\ editor' = Current(history')
            /\ (editor = Current(history) \/ debounceTimeout = NoTimer) =>
                    editor' # editor]_vars

\* a history whose first and third snapshot are equal, after an undo from
\* the third to the second
NoEqualNeighboursWitness ==
    /\ lastEvent = "undo"
    /\ Len(history.stack) = 3
    /\ history.index = 1
    /\ history.stack[1] = history.stack[3]
    /\ debounceTimeout = NoTimer

\* C35: while the Edited badge shows (cursor > 0) the edited-since-load
\* latch is set and nothing is highlighted: no region of the overlay is
\* drawn as highlighted and the highlight is null.  (The converse fails: the
\* latch is set with cursor 0 after undoing back to the first snapshot, and
\* between the first edit and its commit.)
EditedImpliesLatched ==
    isEdited =>
        /\ Mounted
        /\ hasEditedSinceLoad
        /\ highlightedWord = NoWord
        /\ \A word \in OverlayWords : ~isHighlighted(word)

\* the cursor is back at 0 after an undo from a committed edit: the badge
\* is gone, the latch is still set
EditedImpliesLatchedWitness ==
    /\ lastEvent = "undo"
    /\ ~isEdited
    /\ Len(history.stack) >= 2
    /\ hasEditedSinceLoad
    /\ highlightedWord = NoWord

\* ---- viewport claims, continued
ScaleOperation ==
    \/ handleZoomIn
    \/ handleZoomOut
    \/ \E deltaY \in WheelDeltas : handleWheel(deltaY)

DragOperation == \E client \in Pointers : handleMouseMove(client)

\* C36: in the stored viewport state of the displayed image, zoomIn,
\* zoomOut and wheel leave the position as it is and a pointer move (a drag
\* included) leaves the scale as it is; none of them touches the result,
\* the error or the loading flag of the image, any other image, or the
\* selection.  Stated for each kind of change: a step that makes it is not
\* one of the operations that must leave it alone.
ViewportOpsFramed ==
    [][/\ ZoomStateOf(images'[selectedId]).position # zoomState.position =>
            ~ScaleOperation
       /\ ZoomStateOf(images'[selectedId]).scale # zoomState.scale =>
            ~DragOperation
       /\ (\/ selectedId' # selectedId
           \/ \E id \in ImageIds :
                \/ id # selectedId /\ images'[id] # images[id]
                \/ images'[id].result # images[id].result
                \/ images'[id].error # images[id].error
                \/ images'[id].isLoading # images[id].isLoading) =>
            ~(ScaleOperation \/ DragOperation)]_vars

\* an image zoomed in twice is being dragged: the move has changed its
\* position and the scale is the one the zoom steps left
ViewportOpsFramedWitness ==
    /\ lastEvent = "drag"
    /\ isDragging
    /\ images[selectedId].zoomState = [scale |-> 14, position |-> [x |-> 1, y |-> 1]]

\* ---- analysis claims, continued
\* C37: at most one analysis request is in flight per image, and the
\* isLoading flag of an image is set exactly while a request for it is in
\* flight, whatever the order of Analyze / Retry clicks, the steps of the
\* Analyze-All loop and the completions of requests.
OneRequestPerImage ==
    \A id \in ImageIds :
        /\ Len(inflight[id]) <= 1
        /\ images[id].isLoading <=> inflight[id] # <<>>

\* ---- gallery claims, continued
\* C38: the selected image is null or an image of the gallery, under every
\* order of upload, select, remove, clear-all and completion of analyses,
\* a completion after the image was removed or the gallery cleared included.
SelectionInGallery ==
    selectedImage # NoSelection => HasId(gallery, selectedImage.id)

\* ---- extraction mode claims
\* C39: after any sequence of toggles from ['all'] the list of selected
\* modes is not empty, holds no mode twice, holds 'all' only as its sole
\* element and never holds 'arabic', 'foreign' and 'numbers' together: a
\* toggle that would leave all three selected, or none, leaves ['all'].
ModesWellFormed ==
    /\ [](/\ Len(extractionModes) >= 1
          /\ Range(extractionModes) \subseteq ExtractionModes
          /\ Cardinality(Range(extractionModes)) = Len(extractionModes)
          /\ "all" \in Range(extractionModes) => extractionModes = <<"all">>
          /\ ~(granularOptions \subseteq Range(extractionModes)))
    /\ [][\A mode \in granularOptions :
            (extractionModes' # extractionModes /\ handleModeChange(mode)) =>
                LET before == Range(extractionModes) \ {"all"}
                    after == IF mode \in before THEN before \ {mode}
                             ELSE before \cup {mode}
                IN IF after = {} \/ after = granularOptions
                   THEN extractionModes' = <<"all">>
                   ELSE Range(extractionModes') = after]_vars

\* the third granular mode was toggled on beside the other two, with
\* images in the gallery: the list is ['all'] again
ModesWellFormedWitness ==
    /\ lastEvent = "modes:every"
    /\ extractionModes = <<"all">>
    /\ gallery # <<>>

====
